---- MODULE Spec2Model ----
(***************************************************************************)
(* State-machine model of the metabolic-profiling pipeline:                *)
(*   123.py               Tasks 1, 2, 3 and 5 (acquire, impute, HOMA-IR,   *)
(*                        standardize, split, K-Means, label, save)        *)
(*   task5_clustering.py  reload of the saved arrays, K-Means, label, save *)
(*   eda.py, visualize.py loading of the imputed table                     *)
(* The scripts run one at a time and communicate through files; `disk` is  *)
(* the working directory.  Real-valued quantities are fixed-point integers:*)
(* FI in uU/mL, FBS and TGL in mg/dL, HbA1c in tenths of a percent,        *)
(* Creatinine in hundredths of mg/dL, HOMA_IR in thousandths, z-scores in  *)
(* hundredths of a standard deviation.                                     *)
(***************************************************************************)
EXTENDS Integers, Sequences, FiniteSets, TLC

VARIABLES
    pc,              \* position of the running script ("idle" when none runs)
    script,          \* "none", "123", "task5", "eda", "visualize"
    runs,            \* number of launches of 123.py so far
    exit_code,       \* how the last run of 123.py / task5_clustering.py ended:
                     \* "none", "ok", "raised", "exit1"
    disk,            \* files of the working directory
    df_imputed,      \* [columns, rows]: the in-memory table of the running script
    X_unscaled,      \* the six-feature matrix (sequence of feature vectors)
    scaler,          \* StandardScaler: [fitted, mean_, scale_, n_fits, fit_on]
    X_train_scaled,  \* standardized training rows
    X_test_scaled,   \* standardized test rows
    split_idx,       \* row indices train_test_split selected: [train, test]
    kmeans,          \* KMeans: [fitted, cluster_centers_, n_iter_, n_fits, fit_on]
    all_labels,      \* output of kmeans.predict
    X_scaled,        \* the standardized full matrix (123.py)
    cluster_counts,  \* pd.Series(all_labels).value_counts().sort_index()
    splitHist,       \* every split performed so far: [n, train, test]
    fitHist,         \* every fit/predict performed so far
    centersHist,     \* every centers table saved so far
    task4,           \* memory of task4_cluster_determination.py
    task8,           \* memory of task8_model_validation.py
    archive,         \* create_final_archive.py: the source and documentation
                     \* files present, the open ZIP and the two counters
    task7            \* memory of task7_umap_visualization.py

vars == <<pc, script, runs, exit_code, disk, df_imputed, X_unscaled, scaler,
          X_train_scaled, X_test_scaled, split_idx, kmeans, all_labels,
          X_scaled, cluster_counts, splitHist, fitHist, centersHist, task4, task8, archive, task7>>

(***************************************************************************)
(* Bounds of the model                                                     *)
(***************************************************************************)
MaxRaw == 9        \* most participants one download returns
MaxRuns == 2       \* most launches of 123.py
MaxSample == 3     \* rows of the demonstration sample visualize.py generates
MaxCohort == 22    \* most participants of the download behind a completed run
MaxIterCap == 2    \* largest max_iter tried below the configured one
MaxMissing == 1    \* most source or documentation files missing from the directory

(***************************************************************************)
(* Program constants                                                       *)
(***************************************************************************)
K_CLUSTERS == 4
CLUSTER_FEATURES == <<"HOMA_IR", "FI", "HbA1c", "FBS", "TGL", "Creatinine">>
imputation_cols == <<"FI", "HbA1c", "FBS", "TGL", "Creatinine">>
AGE_MIN == 35
HOMA_DENOMINATOR == 405
RANDOM_STATE == 42
MAX_ITER == 300
\* test_size=0.3, as tenths
TEST_SIZE_TENTHS == 3

\* z-scores are kept in hundredths of a standard deviation
ZUNIT == 100
\* HOMA_IR is kept in thousandths
HOMA_UNIT == 1000

Range(s) == {s[i] : i \in DOMAIN s}

RECURSIVE SumSeq(_)
SumSeq(s) == IF s = <<>> THEN 0 ELSE Head(s) + SumSeq(Tail(s))

Min2(a, b) == IF a <= b THEN a ELSE b

(***************************************************************************)
(* The downloaded survey data.  A download returns the first m participants*)
(* of the survey; a laboratory value may be missing.                       *)
(***************************************************************************)
Archetypes ==
    << [Age |-> 40, FI |-> 10, HbA1c |-> 55, FBS |-> 100, TGL |-> 120, Creatinine |-> 90,  missing |-> {}],
       [Age |-> 36, FI |-> 4,  HbA1c |-> 50, FBS |-> 85,  TGL |-> 80,  Creatinine |-> 80,  missing |-> {}],
       [Age |-> 20, FI |-> 6,  HbA1c |-> 51, FBS |-> 88,  TGL |-> 95,  Creatinine |-> 85,  missing |-> {}],
       [Age |-> 60, FI |-> 20, HbA1c |-> 80, FBS |-> 160, TGL |-> 250, Creatinine |-> 110, missing |-> {}],
       [Age |-> 50, FI |-> 0,  HbA1c |-> 58, FBS |-> 92,  TGL |-> 140, Creatinine |-> 95,  missing |-> {"FI"}],
       [Age |-> 35, FI |-> 15, HbA1c |-> 62, FBS |-> 0,   TGL |-> 180, Creatinine |-> 100, missing |-> {"FBS"}],
       [Age |-> 71, FI |-> 7,  HbA1c |-> 54, FBS |-> 97,  TGL |-> 60,  Creatinine |-> 130, missing |-> {}],
       [Age |-> 34, FI |-> 9,  HbA1c |-> 53, FBS |-> 91,  TGL |-> 100, Creatinine |-> 88,  missing |-> {}] >>

\* Participant i: the archetypes repeat with a drift, so that no two
\* participants share a feature vector.
RawRow(i) ==
    LET a == Archetypes[((i - 1) % Len(Archetypes)) + 1]
        d == (i - 1) \div Len(Archetypes)
    IN  [SEQN |-> 73556 + i, Age |-> a.Age,
         FI |-> IF "FI" \in a.missing THEN 0 ELSE a.FI + d,
         HbA1c |-> a.HbA1c + d,
         FBS |-> IF "FBS" \in a.missing THEN 0 ELSE a.FBS + 2 * d,
         TGL |-> a.TGL + 7 * d,
         Creatinine |-> a.Creatinine + 3 * d,
         missing |-> a.missing]

\* nhanes.download_data + nhanes.data.copy(), renamed
Download(m) == [i \in 1..m |-> RawRow(i)]

\* df[df['Age'] >= 35].reset_index(drop=True)
RECURSIVE FilterAge(_)
FilterAge(rows) ==
    IF rows = <<>> THEN <<>>
    ELSE IF Head(rows).Age >= AGE_MIN
         THEN <<Head(rows)>> \o FilterAge(Tail(rows))
         ELSE FilterAge(Tail(rows))

(***************************************************************************)
(* IterativeImputer(random_state=42, max_iter=10).  The regression it fits *)
(* is not reproduced; its result is one of a few fitted estimates per      *)
(* column.  min_value/max_value are left at their defaults (-inf, +inf),   *)
(* so nothing clips an estimate.                                           *)
(***************************************************************************)
Estimates ==
    { [FI |-> 12, HbA1c |-> 56, FBS |-> 104, TGL |-> 130, Creatinine |-> 93],
      [FI |-> 0 - 3, HbA1c |-> 56, FBS |-> 95, TGL |-> 130, Creatinine |-> 93] }

\* a column with no observed value is dropped by the imputer, and the
\* assignment back into the five columns then raises
ImputerRaises(rows) ==
    \/ rows = <<>>
    \/ \E col \in Range(imputation_cols) :
          \A i \in DOMAIN rows : col \in rows[i].missing

ImputeCell(row, col, est) == IF col \in row.missing THEN est[col] ELSE row[col]

Impute(rows, est) ==
    [i \in DOMAIN rows |->
        [SEQN |-> rows[i].SEQN, Age |-> rows[i].Age,
         FI |-> ImputeCell(rows[i], "FI", est),
         HbA1c |-> ImputeCell(rows[i], "HbA1c", est),
         FBS |-> ImputeCell(rows[i], "FBS", est),
         TGL |-> ImputeCell(rows[i], "TGL", est),
         Creatinine |-> ImputeCell(rows[i], "Creatinine", est),
         HOMA_IR |-> 0, Subtype |-> 0 - 1]]

Task1Columns == {"SEQN", "Age"} \cup Range(imputation_cols)

(***************************************************************************)
(* HOMA-IR = (Fasting Insulin * Fasting Glucose) / 405, in thousandths     *)
(***************************************************************************)
HOMA_IR_wrong_denominator(fi, fbs) == (fi * fbs * HOMA_UNIT) \div 450

HOMA_IR(fi, fbs) == (fi * fbs * HOMA_UNIT) \div HOMA_DENOMINATOR

WithHOMA(rows) == [i \in DOMAIN rows |-> [rows[i] EXCEPT !.HOMA_IR = HOMA_IR(rows[i].FI, rows[i].FBS)]]

\* df[CLUSTER_FEATURES]
Features(row) == <<row.HOMA_IR, row.FI, row.HbA1c, row.FBS, row.TGL, row.Creatinine>>

FeatureMatrix(rows) == [i \in DOMAIN rows |-> Features(rows[i])]

NFeatures == Len(CLUSTER_FEATURES)

(***************************************************************************)
(* StandardScaler                                                          *)
(***************************************************************************)
\* a / b rounded to the nearest integer (b > 0)
RoundDiv(a, b) == (2 * a + b) \div (2 * b)

RECURSIVE ISqrtBetween(_, _, _)
ISqrtBetween(v, lo, hi) ==
    IF lo >= hi THEN lo
    ELSE LET mid == (lo + hi + 1) \div 2
         IN  IF mid * mid <= v THEN ISqrtBetween(v, mid, hi)
                               ELSE ISqrtBetween(v, lo, mid - 1)

\* integer square root; 46340 is the largest root of a 32-bit value
ISqrt(v) == ISqrtBetween(v, 0, Min2(v, 46340))

Column(X, j) == [i \in DOMAIN X |-> X[i][j]]

Mean(col) == RoundDiv(SumSeq(col), Len(col))

Variance(col) ==
    LET mu == Mean(col)
    IN  SumSeq([i \in DOMAIN col |-> (col[i] - mu) * (col[i] - mu)]) \div Len(col)

\* sklearn replaces a zero standard deviation by 1 (_handle_zeros_in_scale)
HandleZerosInScale(sd) == IF sd = 0 THEN 1 ELSE sd

\* scaler.fit(X): per-feature mean and population standard deviation
ScalerFit(X) ==
    [mean_  |-> [j \in 1..NFeatures |-> Mean(Column(X, j))],
     scale_ |-> [j \in 1..NFeatures |-> HandleZerosInScale(ISqrt(Variance(Column(X, j))))]]

\* scaler.transform(X): z = (x - mean) / scale
Transform(p, X) ==
    [i \in DOMAIN X |->
        [j \in 1..NFeatures |-> RoundDiv((X[i][j] - p.mean_[j]) * ZUNIT, p.scale_[j])]]

InverseTransform_without_mean(p, Z) ==
    [i \in DOMAIN Z |->
        [j \in 1..NFeatures |-> RoundDiv(Z[i][j] * p.scale_[j], ZUNIT)]]

\* scaler.inverse_transform(Z): x = z * scale + mean
InverseTransform(p, Z) ==
    [i \in DOMAIN Z |->
        [j \in 1..NFeatures |-> RoundDiv(Z[i][j] * p.scale_[j], ZUNIT) + p.mean_[j]]]

NoScaler == [fitted |-> FALSE, n_fits |-> 0]

(***************************************************************************)
(* numpy RandomState: a seeded generator and the permutation it draws.     *)
(* The Mersenne Twister is stood in for by a 16-bit Lehmer generator; what *)
(* matters is that the stream is a function of the seed alone.             *)
(***************************************************************************)
NextRand(s) == (s * 75 + 74) % 65537

\* states of the process-global generator, which numpy seeds from the
\* operating system when no seed is given
Entropy == {7, 2024}

RECURSIVE Shuffle(_, _, _)
Shuffle(seq, i, s) ==
    IF i <= 1 THEN seq
    ELSE LET s2 == NextRand(s)
             j == (s2 % i) + 1
         IN  Shuffle([seq EXCEPT ![i] = seq[j], ![j] = seq[i]], i - 1, s2)

\* rng.permutation(n), rows numbered from 1
Permutation(n, s) == Shuffle([i \in 1..n |-> i], n, s)

(***************************************************************************)
(* train_test_split(X_scaled, X_unscaled, test_size=0.3, random_state=42)  *)
(***************************************************************************)
SplitRandomState_unseeded(np_global) == np_global

\* check_random_state(random_state): the seed given, else the global state
SplitRandomState(np_global) == RANDOM_STATE

NTest_floor(n) == (TEST_SIZE_TENTHS * n) \div 10

\* n_test = ceil(test_size * n_samples)
NTest(n) == (TEST_SIZE_TENTHS * n + 9) \div 10

\* n_train = n_samples - n_test
NTrain(n) == n - NTest(n)

\* "the resulting train set will be empty"
SplitRaises(n) == n = 0 \/ NTrain(n) = 0

TrainIndices_overlapping(perm, n) == SubSeq(perm, NTest(n), n)

\* ind_train = permutation[n_test:(n_test + n_train)]
TrainIndices(perm, n) == SubSeq(perm, NTest(n) + 1, NTest(n) + NTrain(n))

\* ind_test = permutation[:n_test]
TestIndices(perm, n) == SubSeq(perm, 1, NTest(n))

SplitIndices(n, seed) ==
    LET perm == Permutation(n, seed)
    IN  [train |-> TrainIndices(perm, n), test |-> TestIndices(perm, n)]

\* the record of one executed split; `again` tells that the same split was
\* produced by a second execution
AddSplit(hist, n, idx) ==
    LET same == {h \in hist : h.n = n /\ h.train = idx.train /\ h.test = idx.test}
    IN  IF same = {}
        THEN hist \cup {[n |-> n, train |-> idx.train, test |-> idx.test, again |-> FALSE]}
        ELSE (hist \ same) \cup {[n |-> n, train |-> idx.train, test |-> idx.test, again |-> TRUE]}

\* _safe_indexing(X, indices)
Take(X, idx) == [i \in DOMAIN idx |-> X[idx[i]]]

(***************************************************************************)
(* KMeans(n_clusters=4, random_state=42, n_init='auto', max_iter=300)      *)
(***************************************************************************)
KMeansRandomState_unseeded(np_global) == np_global

KMeansRandomState(np_global) == RANDOM_STATE

Dist2(a, b) == SumSeq([j \in 1..NFeatures |-> (a[j] - b[j]) * (a[j] - b[j])])

Nearest_one_based(centers, x) ==
    CHOOSE c \in DOMAIN centers :
        \A d \in DOMAIN centers :
            /\ Dist2(x, centers[c]) <= Dist2(x, centers[d])
            /\ (d < c => Dist2(x, centers[c]) < Dist2(x, centers[d]))

\* argmin over the centroids of the squared Euclidean distance: the lowest
\* index among equally near centroids; labels count from 0
Nearest(centers, x) ==
    (CHOOSE c \in DOMAIN centers :
        \A d \in DOMAIN centers :
            /\ Dist2(x, centers[c]) <= Dist2(x, centers[d])
            /\ (d < c => Dist2(x, centers[c]) < Dist2(x, centers[d]))) - 1

\* kmeans.predict(X)
Predict(centers, X) == [i \in DOMAIN X |-> Nearest(centers, X[i])]

\* seeded initialization: k training rows drawn by the generator
InitCenters(X, k, seed) ==
    LET perm == Permutation(Len(X), seed)
    IN  [c \in 1..k |-> X[perm[c]]]

Members(labels, c) == {i \in DOMAIN labels : labels[i] = c - 1}

RECURSIVE SumVecs(_, _, _)
SumVecs(X, S, j) ==
    IF S = {} THEN 0
    ELSE LET i == CHOOSE m \in S : TRUE
         IN  X[i][j] + SumVecs(X, S \ {i}, j)

\* the mean of each cluster's members; an empty cluster keeps its centroid
Relocate(X, labels, centers) ==
    [c \in DOMAIN centers |->
        LET S == Members(labels, c)
        IN  IF S = {} THEN centers[c]
            ELSE [j \in 1..NFeatures |-> RoundDiv(SumVecs(X, S, j), Cardinality(S))]]

\* Lloyd iterations: stop when the labels repeat or after max_iter rounds
RECURSIVE Lloyd(_, _, _, _, _)
Lloyd(X, centers, old_labels, iter, max_iter) ==
    LET labels == Predict(centers, X)
        moved  == Relocate(X, labels, centers)
    IN  IF labels = old_labels \/ iter + 1 >= max_iter
        THEN [cluster_centers_ |-> moved, n_iter_ |-> iter + 1]
        ELSE Lloyd(X, moved, labels, iter + 1, max_iter)

\* "n_samples should be >= n_clusters"
KMeansRaises(X, k) == Len(X) < k

\* kmeans.fit(X)
KMeansFit(X, k, seed, max_iter) ==
    Lloyd(X, InitCenters(X, k, seed), <<>>, 0, max_iter)

NoKMeans == [fitted |-> FALSE, n_fits |-> 0]

(***************************************************************************)
(* Rounding of the centers table: DataFrame.round(decimals)                *)
(***************************************************************************)
\* fixed-point units per 1.0 of each feature, in CLUSTER_FEATURES order
FeatureUnits == <<HOMA_UNIT, 1, 10, 1, 1, 100>>

RECURSIVE Pow10(_)
Pow10(d) == IF d = 0 THEN 1 ELSE 10 * Pow10(d - 1)

RoundDecimals(x, j, decimals) ==
    LET q == FeatureUnits[j] \div Pow10(decimals)
    IN  IF q <= 1 THEN x ELSE RoundDiv(x, q) * q

CentersTable_shifted(p, centers, decimals) ==
    LET unscaled_centers == InverseTransform(p, centers)
    IN  [c \in 1..K_CLUSTERS |->
            [j \in 1..NFeatures |->
                RoundDecimals(unscaled_centers[(c % K_CLUSTERS) + 1][j], j, decimals)]]

\* scaler.inverse_transform(kmeans.cluster_centers_), rounded; row c is
\* the row named 'Subtype c-1'
CentersTable(p, centers, decimals) ==
    LET unscaled_centers == InverseTransform(p, centers)
    IN  [c \in 1..K_CLUSTERS |->
            [j \in 1..NFeatures |-> RoundDecimals(unscaled_centers[c][j], j, decimals)]]

(***************************************************************************)
(* Files and process memory                                                *)
(***************************************************************************)
Absent == [exists |-> FALSE]

EmptyDisk ==
    [imputed_csv   |-> Absent,    \* nhanes_metabolic_imputed_task1.csv
     X_train_npy   |-> Absent,    \* X_train_scaled.npy
     X_test_npy    |-> Absent,    \* X_test_scaled.npy
     X_train_csv   |-> Absent,    \* X_train_scaled.csv (never written)
     X_test_csv    |-> Absent,    \* X_test_scaled.csv (never written)
     labeled_out   |-> Absent,    \* output/nhanes_metabolic_labeled_task5.csv
     centers_out   |-> Absent,    \* output/metabolic_subtype_centers_task5.csv
     labeled_root  |-> Absent,    \* nhanes_metabolic_labeled_task5.csv
     centers_root  |-> Absent,    \* metabolic_subtype_centers_task5.csv
     optimal_clusters_png |-> Absent,   \* visualizations/4_optimal_clusters.png
     confusion_matrix_png |-> Absent,   \* visualizations/8_confusion_matrix.png
     umap_png      |-> Absent,    \* visualizations/7_umap_visualization.png
     umap_csv      |-> Absent]    \* output/umap_coordinates_task7.csv

NoTable == [columns |-> {}, rows |-> <<>>]

NoSplit == [train |-> <<>>, test |-> <<>>]

\* a script that is not running holds nothing
NoTask == [loaded |-> FALSE]

\* create_final_archive.py: the source code and documentation entries
SourceFiles ==
    <<"123.py", "task4_cluster_determination.py", "task5_clustering.py",
      "task7_umap_visualization.py", "task8_model_validation.py",
      "task8_final_validation_plot.py", "eda.py", "visualize.py", "create_zip.py",
      "README.md", "PROJECT_DOCUMENTATION.md", "QUICK_START.md", "SCRIPT_SUMMARY.md",
      "IMPLEMENTATION_SUMMARY.md", "DOCUMENTATION_INDEX.md", "OUTPUT_TABLE.txt",
      "requirements.txt">>

FILES_TO_INCLUDE ==
    <<"nhanes_metabolic_imputed_task1.csv", "X_train_scaled.npy", "X_test_scaled.npy",
      "output/nhanes_metabolic_labeled_task5.csv",
      "output/metabolic_subtype_centers_task5.csv",
      "nhanes_metabolic_labeled_task5.csv", "metabolic_subtype_centers_task5.csv">>
    \o SourceFiles \o <<"visualizations/", "output/">>

\* no archive is being written; every source and documentation file is there
NoArchive == [open |-> FALSE, sources |-> Range(SourceFiles)]

Init ==
    /\ pc = "idle"
    /\ script = "none"
    /\ runs = 0
    /\ exit_code = "none"
    /\ disk = EmptyDisk
    /\ df_imputed = NoTable
    /\ X_unscaled = <<>>
    /\ scaler = NoScaler
    /\ X_scaled = <<>>
    /\ X_train_scaled = <<>>
    /\ X_test_scaled = <<>>
    /\ split_idx = NoSplit
    /\ kmeans = NoKMeans
    /\ all_labels = <<>>
    /\ cluster_counts = <<>>
    /\ splitHist = {}
    /\ fitHist = {}
    /\ centersHist = {}
    /\ task4 = NoTask
    /\ task8 = NoTask
    /\ archive = NoArchive
    /\ task7 = NoTask

\* the interpreter ends: its memory is gone, the files stay
Exit(code) ==
    /\ pc' = "idle"
    /\ script' = "none"
    /\ exit_code' = code
    /\ df_imputed' = NoTable
    /\ X_unscaled' = <<>>
    /\ scaler' = NoScaler
    /\ X_scaled' = <<>>
    /\ X_train_scaled' = <<>>
    /\ X_test_scaled' = <<>>
    /\ split_idx' = NoSplit
    /\ kmeans' = NoKMeans
    /\ all_labels' = <<>>
    /\ cluster_counts' = <<>>

(***************************************************************************)
(* 123.py                                                                  *)
(***************************************************************************)
\* Task 1: download, rename, age filter, MICE imputation, save the CSV.
\* Any exception is reported and re-raised.
Task1_swallows_error(m, est, download_ok, csv_ok) ==
    /\ pc = "idle"
    /\ runs < MaxRuns
    /\ runs' = runs + 1
    /\ df_imputed' = [columns |-> Task1Columns, rows |-> <<>>]
    /\ pc' = "t2"
    /\ script' = "123"
    /\ UNCHANGED <<exit_code, disk, X_unscaled, scaler, X_scaled, X_train_scaled,
                   X_test_scaled, split_idx, kmeans, all_labels, cluster_counts,
                   splitHist, fitHist, centersHist, task4, task8, archive, task7>>

Task1(m, est, download_ok, csv_ok) ==
    /\ pc = "idle"
    /\ runs < MaxRuns
    /\ runs' = runs + 1
    /\ LET df_filtered == FilterAge(Download(m))
       IN  IF ~download_ok \/ ImputerRaises(df_filtered) \/ ~csv_ok
           THEN /\ Exit("raised")
                /\ UNCHANGED disk
           ELSE LET table == [columns |-> Task1Columns, rows |-> Impute(df_filtered, est)]
                IN  /\ df_imputed' = table
                    /\ disk' = [disk EXCEPT !.imputed_csv =
                                   [exists |-> TRUE, columns |-> table.columns, rows |-> table.rows]]
                    /\ pc' = "t2"
                    /\ script' = "123"
                    /\ UNCHANGED <<exit_code, X_unscaled, scaler, X_scaled, X_train_scaled,
                                   X_test_scaled, split_idx, kmeans, all_labels, cluster_counts>>
    /\ UNCHANGED <<splitHist, fitHist, centersHist, task4, task8, archive, task7>>

\* Task 2: df_imputed['HOMA_IR'] = (FI * FBS) / 405
Task2 ==
    /\ pc = "t2"
    /\ df_imputed' = [columns |-> df_imputed.columns \cup {"HOMA_IR"},
                      rows |-> WithHOMA(df_imputed.rows)]
    /\ pc' = "t3"
    /\ UNCHANGED <<script, runs, exit_code, disk, X_unscaled, scaler, X_scaled,
                   X_train_scaled, X_test_scaled, split_idx, kmeans, all_labels, cluster_counts,
                   splitHist, fitHist, centersHist, task4, task8, archive, task7>>

ScalerFitPopulation_train_only(X) ==
    IF NTrain(Len(X)) = 0 THEN X ELSE SubSeq(X, 1, NTrain(Len(X)))

\* the rows StandardScaler is fit on in 123.py: all of X_unscaled
ScalerFitPopulation(X) == X

\* Task 3, first half: X_unscaled = df_imputed[CLUSTER_FEATURES].copy();
\* X_scaled = scaler.fit_transform(X_unscaled)
Task3Scale ==
    /\ pc = "t3"
    /\ LET X == FeatureMatrix(df_imputed.rows)
           p == ScalerFit(ScalerFitPopulation(X))
       IN  /\ X_unscaled' = X
           /\ scaler' = [fitted |-> TRUE, mean_ |-> p.mean_, scale_ |-> p.scale_,
                         n_fits |-> scaler.n_fits + 1, fit_on |-> ScalerFitPopulation(X)]
           /\ X_scaled' = Transform(p, X)
    /\ pc' = "t3split"
    /\ UNCHANGED <<script, runs, exit_code, disk, df_imputed, X_train_scaled,
                   X_test_scaled, split_idx, kmeans, all_labels, cluster_counts, splitHist, fitHist, centersHist, task4, task8, archive, task7>>

\* Task 3, second half: train_test_split, then np.save of both arrays.
\* The split raises on an empty train set; a save may fail.
Task3Split(np_global, save_ok) ==
    /\ pc = "t3split"
    /\ LET n == Len(X_scaled)
       IN  IF SplitRaises(n)
           THEN /\ Exit("raised")
                /\ UNCHANGED <<disk, splitHist>>
           ELSE LET idx == SplitIndices(n, SplitRandomState(np_global))
                    train == Take(X_scaled, idx.train)
                    test == Take(X_scaled, idx.test)
                IN  /\ splitHist' = AddSplit(splitHist, n, idx)
                    /\ IF ~save_ok
                       THEN /\ Exit("raised")
                            /\ UNCHANGED disk
                       ELSE /\ X_train_scaled' = train
                            /\ X_test_scaled' = test
                            /\ split_idx' = idx
                            /\ disk' = [disk EXCEPT
                                   !.X_train_npy = [exists |-> TRUE, data |-> train,
                                                    params |-> [mean_ |-> scaler.mean_, scale_ |-> scaler.scale_],
                                                    population |-> X_unscaled],
                                   !.X_test_npy = [exists |-> TRUE, data |-> test,
                                                   params |-> [mean_ |-> scaler.mean_, scale_ |-> scaler.scale_],
                                                   population |-> X_unscaled]]
                            /\ pc' = "t5fit"
                            /\ UNCHANGED <<script, exit_code, df_imputed, X_unscaled, scaler,
                                           X_scaled, kmeans, all_labels, cluster_counts>>
    /\ UNCHANGED <<runs, fitHist, centersHist, task4, task8, archive, task7>>

\* positional column assignment df['Subtype'] = labels
AssignSubtype(rows, labels) ==
    [i \in DOMAIN rows |-> [rows[i] EXCEPT !.Subtype = labels[i]]]

\* the record of one executed fit and predict; `by` names the scripts that
\* produced it
AddFit(hist, train, km, input, labels, who) ==
    LET same == {h \in hist : /\ h.train = train /\ h.centers = km.cluster_centers_
                              /\ h.input = input /\ h.labels = labels}
        by == UNION {h.by : h \in same} \cup {who}
    IN  (hist \ same) \cup {[train |-> train, centers |-> km.cluster_centers_,
                             input |-> input, labels |-> labels, by |-> by]}

Task5Fit_truncates_k(np_global) ==
    /\ pc = "t5fit"
    /\ LET fit == KMeansFit(X_train_scaled, Min2(K_CLUSTERS, Len(X_train_scaled)),
                            KMeansRandomState(np_global), MAX_ITER)
       IN  kmeans' = [fitted |-> TRUE, cluster_centers_ |-> fit.cluster_centers_,
                      n_iter_ |-> fit.n_iter_, n_fits |-> kmeans.n_fits + 1,
                      fit_on |-> X_train_scaled]
    /\ pc' = "t5label"
    /\ UNCHANGED <<script, exit_code, df_imputed, X_unscaled, scaler, X_scaled,
                   X_train_scaled, X_test_scaled, split_idx, all_labels, cluster_counts,
                   runs, disk, splitHist, fitHist, centersHist, task4, task8, archive, task7>>

\* Task 5: kmeans.fit(X_train_scaled); raises when the training set has
\* fewer rows than clusters
Task5Fit(np_global) ==
    /\ pc = "t5fit"
    /\ IF KMeansRaises(X_train_scaled, K_CLUSTERS)
       THEN /\ Exit("raised")
       ELSE LET fit == KMeansFit(X_train_scaled, K_CLUSTERS,
                                 KMeansRandomState(np_global), MAX_ITER)
            IN  /\ kmeans' = [fitted |-> TRUE, cluster_centers_ |-> fit.cluster_centers_,
                              n_iter_ |-> fit.n_iter_, n_fits |-> kmeans.n_fits + 1,
                              fit_on |-> X_train_scaled]
                /\ pc' = "t5label"
                /\ UNCHANGED <<script, exit_code, df_imputed, X_unscaled, scaler, X_scaled,
                               X_train_scaled, X_test_scaled, split_idx, all_labels, cluster_counts>>
    /\ UNCHANGED <<runs, disk, splitHist, fitHist, centersHist, task4, task8, archive, task7>>

\* pd.Series(labels).value_counts().sort_index(): the count of every label
\* value that occurs, by ascending label
ValueCounts(labels) ==
    [c \in Range(labels) |-> Cardinality({i \in DOMAIN labels : labels[i] = c})]

\* (count / len(all_labels)) * 100, in hundredths of a percent
Percentage(count, total) == RoundDiv(count * 10000, total)

\* the lines printed under "Cluster Distribution:", one for each item of
\* cluster_counts
DistributionReport(counts, total) ==
    {[subtype_id |-> c, count |-> counts[c], percentage |-> Percentage(counts[c], total)] :
        c \in DOMAIN counts}

\* Task 5: X_all_scaled = concatenate([train, test]);
\* all_labels = kmeans.predict(X_all_scaled); df_imputed['Subtype'] = all_labels;
\* the cluster distribution is counted
Task5Label ==
    /\ pc = "t5label"
    /\ LET X_all_scaled == X_train_scaled \o X_test_scaled
           labels == Predict(kmeans.cluster_centers_, X_all_scaled)
       IN  /\ all_labels' = labels
           /\ df_imputed' = [columns |-> df_imputed.columns \cup {"Subtype"},
                             rows |-> AssignSubtype(df_imputed.rows, labels)]
           /\ cluster_counts' = ValueCounts(labels)
           /\ fitHist' = AddFit(fitHist, X_train_scaled, kmeans, X_all_scaled, labels, "123")
    /\ pc' = "t5save"
    /\ UNCHANGED <<script, runs, exit_code, disk, X_unscaled, scaler, X_scaled,
                   X_train_scaled, X_test_scaled, split_idx, kmeans, splitHist, centersHist, task4, task8, archive, task7>>

LabeledFile(table) == [exists |-> TRUE, columns |-> table.columns, rows |-> table.rows]

CentersFile(table) == [exists |-> TRUE, rows |-> table]

\* the record of one saved centers table: the script that wrote it, the
\* training rows and centroids it came from, the scaling parameters used
AddCenters(hist, who, train, sc, centers, table) ==
    hist \cup {[by |-> who, train |-> train, centers |-> centers,
                mean_ |-> sc.mean_, scale_ |-> sc.scale_, table |-> table]}

\* Task 5: unscale the centers (rounded to 2 decimals) and save the labeled
\* dataset and the centers to output/ and to the root directory
Task5Save ==
    /\ pc = "t5save"
    /\ LET df_centers == CentersTable(scaler, kmeans.cluster_centers_, 2)
       IN  /\ disk' = [disk EXCEPT
                          !.labeled_out = LabeledFile(df_imputed),
                          !.centers_out = CentersFile(df_centers),
                          !.labeled_root = LabeledFile(df_imputed),
                          !.centers_root = CentersFile(df_centers)]
           /\ centersHist' = AddCenters(centersHist, "123", X_train_scaled, scaler,
                                        kmeans.cluster_centers_, df_centers)
    /\ Exit("ok")
    /\ UNCHANGED <<runs, splitHist, fitHist, task4, task8, archive, task7>>

(***************************************************************************)
(* task5_clustering.py                                                     *)
(***************************************************************************)
C_Load_clears_outputs ==
    /\ pc = "idle"
    /\ IF ~disk.X_train_npy.exists \/ ~disk.X_test_npy.exists \/ ~disk.imputed_csv.exists
       THEN Exit("exit1")
       ELSE LET csv == disk.imputed_csv
            IN  IF "HOMA_IR" \notin csv.columns /\ ~({"FI", "FBS"} \subseteq csv.columns)
                THEN Exit("exit1")
                ELSE LET table == IF "HOMA_IR" \notin csv.columns
                                  THEN [columns |-> csv.columns \cup {"HOMA_IR"},
                                        rows |-> WithHOMA(csv.rows)]
                                  ELSE [columns |-> csv.columns, rows |-> csv.rows]
                         X == FeatureMatrix(table.rows)
                         p == ScalerFit(X)
                    IN  /\ X_train_scaled' = disk.X_train_npy.data
                        /\ X_test_scaled' = disk.X_test_npy.data
                        /\ df_imputed' = table
                        /\ X_unscaled' = X
                        /\ scaler' = [fitted |-> TRUE, mean_ |-> p.mean_, scale_ |-> p.scale_,
                                      n_fits |-> scaler.n_fits + 1, fit_on |-> X]
                        /\ pc' = "c_fit"
                        /\ script' = "task5"
                        /\ UNCHANGED <<exit_code, X_scaled, split_idx, kmeans, all_labels, cluster_counts>>
    /\ disk' = IF pc' = "idle"
               THEN [disk EXCEPT !.labeled_out = Absent, !.centers_out = Absent,
                                 !.labeled_root = Absent, !.centers_root = Absent]
               ELSE disk
    /\ UNCHANGED <<runs, splitHist, fitHist, centersHist, task4, task8, archive, task7>>

\* Steps 1-3: load the arrays and the imputed CSV, make sure HOMA_IR is
\* there, re-fit the scaler.  A missing file or column ends with exit(1).
C_Load ==
    /\ pc = "idle"
    /\ IF ~disk.X_train_npy.exists \/ ~disk.X_test_npy.exists \/ ~disk.imputed_csv.exists
       THEN Exit("exit1")
       ELSE LET csv == disk.imputed_csv
            IN  IF "HOMA_IR" \notin csv.columns /\ ~({"FI", "FBS"} \subseteq csv.columns)
                THEN Exit("exit1")
                ELSE LET table == IF "HOMA_IR" \notin csv.columns
                                  THEN [columns |-> csv.columns \cup {"HOMA_IR"},
                                        rows |-> WithHOMA(csv.rows)]
                                  ELSE [columns |-> csv.columns, rows |-> csv.rows]
                         X == FeatureMatrix(table.rows)
                         p == ScalerFit(X)
                    IN  /\ X_train_scaled' = disk.X_train_npy.data
                        /\ X_test_scaled' = disk.X_test_npy.data
                        /\ df_imputed' = table
                        /\ X_unscaled' = X
                        /\ scaler' = [fitted |-> TRUE, mean_ |-> p.mean_, scale_ |-> p.scale_,
                                      n_fits |-> scaler.n_fits + 1, fit_on |-> X]
                        /\ pc' = "c_fit"
                        /\ script' = "task5"
                        /\ UNCHANGED <<exit_code, X_scaled, split_idx, kmeans, all_labels, cluster_counts>>
    /\ UNCHANGED <<runs, disk, splitHist, fitHist, centersHist, task4, task8, archive, task7>>

\* Step 5.1: kmeans.fit(X_train_scaled)
C_Fit(np_global) ==
    /\ pc = "c_fit"
    /\ IF KMeansRaises(X_train_scaled, K_CLUSTERS)
       THEN /\ Exit("raised")
       ELSE LET fit == KMeansFit(X_train_scaled, K_CLUSTERS,
                                 KMeansRandomState(np_global), MAX_ITER)
            IN  /\ kmeans' = [fitted |-> TRUE, cluster_centers_ |-> fit.cluster_centers_,
                              n_iter_ |-> fit.n_iter_, n_fits |-> kmeans.n_fits + 1,
                              fit_on |-> X_train_scaled]
                /\ pc' = "c_label"
                /\ UNCHANGED <<script, exit_code, df_imputed, X_unscaled, scaler, X_scaled,
                               X_train_scaled, X_test_scaled, split_idx, all_labels, cluster_counts>>
    /\ UNCHANGED <<runs, disk, splitHist, fitHist, centersHist, task4, task8, archive, task7>>

\* Step 5.2: all_labels = kmeans.predict(concatenate([train, test]))
C_Label ==
    /\ pc = "c_label"
    /\ LET X_all_scaled == X_train_scaled \o X_test_scaled
           labels == Predict(kmeans.cluster_centers_, X_all_scaled)
       IN  /\ all_labels' = labels
           /\ fitHist' = AddFit(fitHist, X_train_scaled, kmeans, X_all_scaled, labels, "task5")
    /\ pc' = "c_adjust"
    /\ UNCHANGED <<script, runs, exit_code, disk, df_imputed, X_unscaled, scaler, X_scaled,
                   X_train_scaled, X_test_scaled, split_idx, kmeans, cluster_counts,
                   splitHist, centersHist, task4, task8, archive, task7>>

\* a row of X_unscaled.copy() with its Subtype: the six features only
FeatureRow(x, label) ==
    [HOMA_IR |-> x[1], FI |-> x[2], HbA1c |-> x[3], FBS |-> x[4], TGL |-> x[5],
     Creatinine |-> x[6], Subtype |-> label]

C_Adjust_keeps_last ==
    /\ pc = "c_adjust"
    /\ LET mismatch == Len(all_labels) # Len(X_unscaled)
           min_size == Min2(Len(all_labels), Len(X_unscaled))
           labels == IF mismatch THEN SubSeq(all_labels, Len(all_labels) - min_size + 1, Len(all_labels)) ELSE all_labels
           X == IF mismatch THEN SubSeq(X_unscaled, Len(X_unscaled) - min_size + 1, Len(X_unscaled)) ELSE X_unscaled
       IN  /\ all_labels' = labels
           /\ X_unscaled' = X
           /\ df_imputed' = [columns |-> Range(CLUSTER_FEATURES) \cup {"Subtype"},
                             rows |-> [i \in DOMAIN X |-> FeatureRow(X[i], labels[i])]]
           /\ cluster_counts' = ValueCounts(labels)
    /\ pc' = "c_save"
    /\ UNCHANGED <<script, runs, exit_code, disk, scaler, X_scaled, X_train_scaled,
                   X_test_scaled, split_idx, kmeans, splitHist, fitHist, centersHist, task4, task8, archive, task7>>

\* the size check: on a mismatch both all_labels and X_unscaled are cut to
\* their first min_size entries; then df_imputed = X_unscaled.copy() with
\* the Subtype column, and the cluster distribution is counted
C_Adjust ==
    /\ pc = "c_adjust"
    /\ LET mismatch == Len(all_labels) # Len(X_unscaled)
           min_size == Min2(Len(all_labels), Len(X_unscaled))
           labels == IF mismatch THEN SubSeq(all_labels, 1, min_size) ELSE all_labels
           X == IF mismatch THEN SubSeq(X_unscaled, 1, min_size) ELSE X_unscaled
       IN  /\ all_labels' = labels
           /\ X_unscaled' = X
           /\ df_imputed' = [columns |-> Range(CLUSTER_FEATURES) \cup {"Subtype"},
                             rows |-> [i \in DOMAIN X |-> FeatureRow(X[i], labels[i])]]
           /\ cluster_counts' = ValueCounts(labels)
    /\ pc' = "c_save"
    /\ UNCHANGED <<script, runs, exit_code, disk, scaler, X_scaled, X_train_scaled,
                   X_test_scaled, split_idx, kmeans, splitHist, fitHist, centersHist, task4, task8, archive, task7>>

\* Steps 5.3/5.4: unscale the centers (rounded to 3 decimals), save
C_Save ==
    /\ pc = "c_save"
    /\ LET df_centers == CentersTable(scaler, kmeans.cluster_centers_, 3)
       IN  /\ disk' = [disk EXCEPT
                          !.labeled_out = LabeledFile(df_imputed),
                          !.centers_out = CentersFile(df_centers),
                          !.labeled_root = LabeledFile(df_imputed),
                          !.centers_root = CentersFile(df_centers)]
           /\ centersHist' = AddCenters(centersHist, "task5", X_train_scaled, scaler,
                                        kmeans.cluster_centers_, df_centers)
    /\ Exit("ok")
    /\ UNCHANGED <<runs, splitHist, fitHist, task4, task8, archive, task7>>

(***************************************************************************)
(* eda.py                                                                  *)
(***************************************************************************)
\* the table with HOMA_IR added when the column is not there
EnsureHOMA(csv) ==
    IF "HOMA_IR" \notin csv.columns
    THEN [columns |-> csv.columns \cup {"HOMA_IR"}, rows |-> WithHOMA(csv.rows)]
    ELSE [columns |-> csv.columns, rows |-> csv.rows]

\* Steps 0-1: read the imputed CSV, recalculate HOMA-IR if it is absent
Eda_Load ==
    /\ pc = "idle"
    /\ IF ~disk.imputed_csv.exists
       THEN Exit(exit_code)
       ELSE IF /\ "HOMA_IR" \notin disk.imputed_csv.columns
               /\ ~({"FI", "FBS"} \subseteq disk.imputed_csv.columns)
            THEN Exit(exit_code)
            ELSE /\ df_imputed' = EnsureHOMA(disk.imputed_csv)
                 /\ pc' = "eda_plots"
                 /\ script' = "eda"
                 /\ UNCHANGED <<exit_code, X_unscaled, scaler, X_scaled, X_train_scaled,
                                X_test_scaled, split_idx, kmeans, all_labels, cluster_counts>>
    /\ UNCHANGED <<runs, disk, splitHist, fitHist, centersHist, task4, task8, archive, task7>>

\* Steps 2-4: the plots (no effect on the data)
Eda_Finish ==
    /\ pc = "eda_plots"
    /\ Exit(exit_code)
    /\ UNCHANGED <<runs, disk, splitHist, fitHist, centersHist, task4, task8, archive, task7>>

(***************************************************************************)
(* visualize.py                                                            *)
(***************************************************************************)
RECURSIVE RandAt(_, _)
RandAt(s, k) == IF k = 0 THEN s ELSE RandAt(NextRand(s), k - 1)

Abs(x) == IF x < 0 THEN 0 - x ELSE x

\* the generated demonstration rows: np.random.seed(42), five draws a row,
\* absolute values, HOMA_IR computed from FI and FBS
SampleRow(i) ==
    LET r(f) == RandAt(RANDOM_STATE, 5 * (i - 1) + f)
        fi == Abs(1 + (r(1) % 40))
        fbs == Abs(55 + (r(2) % 90))
    IN  [FI |-> fi, FBS |-> fbs, HbA1c |-> 40 + (r(3) % 30), TGL |-> Abs(40 + (r(4) % 200)),
         Creatinine |-> Abs(50 + (r(5) % 80)), HOMA_IR |-> HOMA_IR(fi, fbs)]

SampleData == [columns |-> Range(CLUSTER_FEATURES), rows |-> [i \in 1..MaxSample |-> SampleRow(i)]]

\* load_data(): the first usable file of data_files, else sample data
load_data ==
    IF disk.imputed_csv.exists
    THEN IF "HOMA_IR" \notin disk.imputed_csv.columns
            /\ {"FI", "FBS"} \subseteq disk.imputed_csv.columns
         THEN EnsureHOMA(disk.imputed_csv)
         ELSE [columns |-> disk.imputed_csv.columns, rows |-> disk.imputed_csv.rows]
    ELSE IF disk.X_train_csv.exists /\ Range(CLUSTER_FEATURES) \subseteq disk.X_train_csv.columns
    THEN [columns |-> disk.X_train_csv.columns, rows |-> disk.X_train_csv.rows]
    ELSE IF disk.X_test_csv.exists /\ Range(CLUSTER_FEATURES) \subseteq disk.X_test_csv.columns
    THEN [columns |-> disk.X_test_csv.columns, rows |-> disk.X_test_csv.rows]
    ELSE SampleData

\* main(): df, data_source = load_data()
Visualize_Load ==
    /\ pc = "idle"
    /\ df_imputed' = load_data
    /\ pc' = "viz_plots"
    /\ script' = "visualize"
    /\ UNCHANGED <<runs, exit_code, disk, X_unscaled, scaler, X_scaled, X_train_scaled,
                   X_test_scaled, split_idx, kmeans, all_labels, cluster_counts, splitHist, fitHist, centersHist, task4, task8, archive, task7>>

\* main(): summary statistics and the five plots
Visualize_Finish ==
    /\ pc = "viz_plots"
    /\ Exit(exit_code)
    /\ UNCHANGED <<runs, disk, splitHist, fitHist, centersHist, task4, task8, archive, task7>>

(***************************************************************************)
(* The pipeline                                                            *)
(***************************************************************************)
Next ==
    \/ \E m \in 0..MaxRaw, est \in Estimates, download_ok \in BOOLEAN, csv_ok \in BOOLEAN :
          Task1(m, est, download_ok, csv_ok)
    \/ Task2
    \/ Task3Scale
    \/ \E np_global \in Entropy, save_ok \in BOOLEAN : Task3Split(np_global, save_ok)
    \/ \E np_global \in Entropy : Task5Fit(np_global)
    \/ Task5Label
    \/ Task5Save
    \/ C_Load
    \/ \E np_global \in Entropy : C_Fit(np_global)
    \/ C_Label
    \/ C_Adjust
    \/ C_Save
    \/ Eda_Load
    \/ Eda_Finish
    \/ Visualize_Load
    \/ Visualize_Finish

Spec == Init /\ [][Next]_vars

(***************************************************************************)
(* The working directory a complete run of 123.py leaves behind, computed  *)
(* with the operators the actions of 123.py use: the starting point of the *)
(* scripts that run after Task 5.                                          *)
(***************************************************************************)
\* 123.py runs to the end on this download: no task raises
RunCompletes(m, est) ==
    LET df_filtered == FilterAge(Download(m))
    IN  /\ ~ImputerRaises(df_filtered)
        /\ ~SplitRaises(Len(df_filtered))
        /\ NTrain(Len(df_filtered)) >= K_CLUSTERS

CompletedRun(m, est, np_global) ==
    LET task1 == [columns |-> Task1Columns, rows |-> Impute(FilterAge(Download(m)), est)]
        task2 == WithHOMA(task1.rows)
        X == FeatureMatrix(task2)
        p == ScalerFit(ScalerFitPopulation(X))
        Xs == Transform(p, X)
        idx == SplitIndices(Len(Xs), SplitRandomState(np_global))
        train == Take(Xs, idx.train)
        test == Take(Xs, idx.test)
        fit == KMeansFit(train, K_CLUSTERS, KMeansRandomState(np_global), MAX_ITER)
        labels == Predict(fit.cluster_centers_, train \o test)
        labeled == [columns |-> Task1Columns \cup {"HOMA_IR", "Subtype"},
                    rows |-> AssignSubtype(task2, labels)]
        df_centers == CentersTable(p, fit.cluster_centers_, 2)
    IN  [EmptyDisk EXCEPT
            !.imputed_csv = [exists |-> TRUE, columns |-> task1.columns, rows |-> task1.rows],
            !.X_train_npy = [exists |-> TRUE, data |-> train, params |-> p, population |-> X],
            !.X_test_npy = [exists |-> TRUE, data |-> test, params |-> p, population |-> X],
            !.labeled_out = LabeledFile(labeled),
            !.centers_out = CentersFile(df_centers),
            !.labeled_root = LabeledFile(labeled),
            !.centers_root = CentersFile(df_centers)]

\* the downloads whose completed run the later scripts start from
Cohorts == {m \in {MaxRaw} \cup ((MaxCohort - 2)..MaxCohort) :
               \A est \in Estimates : RunCompletes(m, est)}

(***************************************************************************)
(* KMeans.fit, one relocation round at a time.  `kmeans` holds the         *)
(* estimator while it runs: its parameters n_clusters and max_iter, the    *)
(* centroids and labels of the last round, the number of rounds.           *)
(***************************************************************************)
\* k_range = range(2, 11) of task4_cluster_determination.py; Task 5 fits k = 4
k_range == <<2, 3, 4, 5, 6, 7, 8, 9, 10>>

LloydStops_ignores_max_iter(labels, old_labels, n_iter, max_iter) ==
    labels = old_labels

\* the loop `for i in range(max_iter)` ends when the labels repeat or with
\* the last round
LloydStops(labels, old_labels, n_iter, max_iter) ==
    labels = old_labels \/ n_iter >= max_iter

FitInit ==
    /\ \E m \in Cohorts, est \in Estimates, np_global \in Entropy,
          k \in Range(k_range), max_iter \in (1..MaxIterCap) \cup {MAX_ITER} :
          /\ X_train_scaled = CompletedRun(m, est, np_global).X_train_npy.data
          /\ ~KMeansRaises(X_train_scaled, k)
          /\ kmeans = [fitted |-> FALSE, n_fits |-> 0, n_clusters |-> k,
                       max_iter |-> max_iter,
                       cluster_centers_ |-> InitCenters(X_train_scaled, k,
                                                        KMeansRandomState(np_global)),
                       labels_ |-> <<>>, n_iter_ |-> 0, converged |-> FALSE]
    /\ pc = "lloyd"
    /\ script = "fit"
    /\ runs = 1
    /\ exit_code = "none"
    /\ disk = EmptyDisk
    /\ df_imputed = NoTable
    /\ X_unscaled = <<>>
    /\ scaler = NoScaler
    /\ X_scaled = <<>>
    /\ X_test_scaled = <<>>
    /\ split_idx = NoSplit
    /\ all_labels = <<>>
    /\ cluster_counts = <<>>
    /\ splitHist = {}
    /\ fitHist = {}
    /\ centersHist = {}
    /\ task4 = NoTask
    /\ task8 = NoTask
    /\ archive = NoArchive
    /\ task7 = NoTask

\* one round: assign every training row to its nearest centroid, move every
\* centroid to the mean of its rows
Lloyd_Iterate ==
    /\ pc = "lloyd"
    /\ \E labels \in {Predict(kmeans.cluster_centers_, X_train_scaled)} :
       \E moved \in {Relocate(X_train_scaled, labels, kmeans.cluster_centers_)} :
       \E n_iter \in {kmeans.n_iter_ + 1} :
           /\ kmeans' = [kmeans EXCEPT !.cluster_centers_ = moved, !.labels_ = labels,
                                       !.n_iter_ = n_iter,
                                       !.converged = (labels = kmeans.labels_)]
           /\ pc' = IF LloydStops(labels, kmeans.labels_, n_iter, kmeans.max_iter)
                    THEN "lloyd_done" ELSE "lloyd"
    /\ UNCHANGED <<script, runs, exit_code, disk, df_imputed, X_unscaled, scaler, X_scaled,
                   X_train_scaled, X_test_scaled, split_idx, all_labels, cluster_counts,
                   splitHist, fitHist, centersHist, task4, task8, archive, task7>>

\* fit returns the estimator with the centroids of the last round
Lloyd_Return ==
    /\ pc = "lloyd_done"
    /\ kmeans' = [kmeans EXCEPT !.fitted = TRUE, !.n_fits = 1]
    /\ pc' = "fitted"
    /\ UNCHANGED <<script, runs, exit_code, disk, df_imputed, X_unscaled, scaler, X_scaled,
                   X_train_scaled, X_test_scaled, split_idx, all_labels, cluster_counts,
                   splitHist, fitHist, centersHist, task4, task8, archive, task7>>

FitNext == Lloyd_Iterate \/ Lloyd_Return

\* a fit that has started keeps running until it returns
SpecFit == FitInit /\ [][FitNext]_vars /\ WF_vars(FitNext)

(***************************************************************************)
(* The scripts that are run after 123.py has completed.  They start from   *)
(* the files a completed run leaves behind, or from an empty directory.    *)
(***************************************************************************)
AfterRunInit ==
    /\ \/ disk = EmptyDisk /\ runs = 0
       \/ \E m \in Cohorts, est \in Estimates, np_global \in Entropy :
             disk = CompletedRun(m, est, np_global) /\ runs = 1
    /\ pc = "idle"
    /\ script = "none"
    /\ exit_code = "none"
    /\ df_imputed = NoTable
    /\ X_unscaled = <<>>
    /\ scaler = NoScaler
    /\ X_scaled = <<>>
    /\ X_train_scaled = <<>>
    /\ X_test_scaled = <<>>
    /\ split_idx = NoSplit
    /\ kmeans = NoKMeans
    /\ all_labels = <<>>
    /\ cluster_counts = <<>>
    /\ splitHist = {}
    /\ fitHist = {}
    /\ centersHist = {}
    /\ task4 = NoTask
    /\ task8 = NoTask
    /\ archive = NoArchive
    /\ task7 = NoTask

(***************************************************************************)
(* task4_cluster_determination.py                                          *)
(***************************************************************************)
\* silhouette values are kept in ten-thousandths
SIL_UNIT == 10000

\* Euclidean distance between two standardized rows
Dist(a, b) == ISqrt(Dist2(a, b))

\* mean distance from row i to the rows of S
MeanDist(X, i, S) ==
    RoundDiv(SumSeq([r \in DOMAIN X |-> IF r \in S THEN Dist(X[i], X[r]) ELSE 0]),
             Cardinality(S))

MinOf(S) == CHOOSE v \in S : \A w \in S : v <= w

MaxOf(S) == CHOOSE v \in S : \A w \in S : v >= w

\* silhouette_samples: (b - a) / max(a, b), 0 for a cluster of one row
SilhouetteSample(X, labels, i) ==
    LET own == Members(labels, labels[i] + 1) \ {i}
        others == Range(labels) \ {labels[i]}
    IN  IF own = {} THEN 0
        ELSE LET a == MeanDist(X, i, own)
                 b == MinOf({MeanDist(X, i, Members(labels, c + 1)) : c \in others})
                 m == IF a >= b THEN a ELSE b
             IN  IF m = 0 THEN 0 ELSE RoundDiv((b - a) * SIL_UNIT, m)

\* "Number of labels is %d. Valid values are 2 to n_samples - 1 (inclusive)"
SilhouetteRaises(X, labels) ==
    LET n_labels == Cardinality(Range(labels))
    IN  n_labels < 2 \/ n_labels > Len(X) - 1

\* silhouette_score(X, labels): the mean of the samples' values
SilhouetteScore(X, labels) ==
    RoundDiv(SumSeq([i \in DOMAIN X |-> SilhouetteSample(X, labels, i)]), Len(X))

\* kmeans.inertia_: the squared distances of the rows to their centroids
Inertia(X, centers, labels) ==
    SumSeq([i \in DOMAIN X |-> Dist2(X[i], centers[labels[i] + 1])])

\* np.argmax, 0-based, the first position of the largest value
ArgMax(s) == (CHOOSE i \in DOMAIN s :
                 /\ \A j \in DOMAIN s : s[j] <= s[i]
                 /\ \A j \in 1..(i - 1) : s[j] < s[i]) - 1

\* np.diff
Diff(s) == [i \in 1..(Len(s) - 1) |-> s[i + 1] - s[i]]

\* list(k_range)[1:]
k_list_from_second == Tail(k_range)

\* Step 4.1: np.load('X_train_scaled.npy'); exit(1) when it is not there
T4_Load ==
    /\ pc = "idle"
    /\ IF ~disk.X_train_npy.exists
       THEN /\ Exit("exit1")
            /\ UNCHANGED task4
       ELSE /\ X_train_scaled' = disk.X_train_npy.data
            /\ task4' = [loaded |-> TRUE, next |-> 1, inertia |-> <<>>,
                         silhouette_scores |-> <<>>]
            /\ pc' = "t4sweep"
            /\ script' = "task4"
            /\ UNCHANGED <<exit_code, df_imputed, X_unscaled, scaler, X_scaled, X_test_scaled,
                           split_idx, kmeans, all_labels, cluster_counts>>
    /\ UNCHANGED <<runs, disk, splitHist, fitHist, centersHist, task8, archive, task7>>

\* Step 4.2, one pass of `for k in k_range`: fit, record the inertia and the
\* silhouette score.  An exception of fit or silhouette_score ends the script.
T4_Sweep(np_global) ==
    /\ pc = "t4sweep"
    /\ LET k == k_range[task4.next]
       IN  IF KMeansRaises(X_train_scaled, k)
           THEN /\ Exit("raised")
                /\ task4' = NoTask
           ELSE \E fit \in {KMeansFit(X_train_scaled, k, KMeansRandomState(np_global), MAX_ITER)} :
                \E labels \in {Predict(fit.cluster_centers_, X_train_scaled)} :
                   IF k > 1 /\ SilhouetteRaises(X_train_scaled, labels)
                   THEN /\ Exit("raised")
                        /\ task4' = NoTask
                   ELSE /\ task4' = [task4 EXCEPT
                              !.next = @ + 1,
                              !.inertia = Append(@, Inertia(X_train_scaled,
                                                            fit.cluster_centers_, labels)),
                              !.silhouette_scores =
                                  IF k > 1
                                  THEN Append(@, SilhouetteScore(X_train_scaled, labels))
                                  ELSE @]
                        /\ kmeans' = [fitted |-> TRUE, n_fits |-> 1,
                                      cluster_centers_ |-> fit.cluster_centers_,
                                      n_iter_ |-> fit.n_iter_, fit_on |-> X_train_scaled]
                        /\ pc' = IF task4.next = Len(k_range) THEN "t4analyse" ELSE "t4sweep"
                        /\ UNCHANGED <<script, exit_code, df_imputed, X_unscaled, scaler,
                                       X_scaled, X_train_scaled, X_test_scaled, split_idx,
                                       all_labels, cluster_counts>>
    /\ UNCHANGED <<runs, disk, splitHist, fitHist, centersHist, task8, archive, task7>>

\* optimal_k_silhouette = k_list[1:][np.argmax(silhouette_scores)]
OptimalKSilhouetteRaises(scores) == ArgMax(scores) + 1 > Len(k_list_from_second)

OptimalKSilhouette(scores) == k_list_from_second[ArgMax(scores) + 1]

\* the elbow: the largest second difference of the inertia, 4 otherwise
OptimalKElbow(inertia) ==
    LET inertia_change_rates == Diff(Diff(inertia))
    IN  IF Len(inertia_change_rates) > 0
        THEN LET optimal_k_elbow_idx == ArgMax(inertia_change_rates) + 2
             IN  IF optimal_k_elbow_idx < Len(k_range)
                 THEN k_range[optimal_k_elbow_idx + 1] ELSE 4
        ELSE 4

\* the two "[Analysis] Optimal k" lines; the indexing raises IndexError when
\* the position is past the end of k_list[1:]
T4_Analyse ==
    /\ pc = "t4analyse"
    /\ IF OptimalKSilhouetteRaises(task4.silhouette_scores)
       THEN /\ Exit("raised")
            /\ task4' = NoTask
       ELSE /\ task4' = [loaded |-> TRUE, next |-> task4.next, inertia |-> task4.inertia,
                         silhouette_scores |-> task4.silhouette_scores,
                         optimal_k_silhouette |-> OptimalKSilhouette(task4.silhouette_scores),
                         optimal_k_elbow |-> OptimalKElbow(task4.inertia)]
            /\ pc' = "t4plot"
            /\ UNCHANGED <<script, exit_code, df_imputed, X_unscaled, scaler, X_scaled,
                           X_train_scaled, X_test_scaled, split_idx, kmeans, all_labels,
                           cluster_counts>>
    /\ UNCHANGED <<runs, disk, splitHist, fitHist, centersHist, task8, archive, task7>>

\* axes[1].plot(k_range_plot, silhouette_scores) needs x and y of one length
PlotRaises(x, y) == Len(x) # Len(y)

\* pd.DataFrame({...}) needs columns of one length
SummaryRaises(scores, inertia) ==
    \/ Len(inertia) # Len(k_range)
    \/ 1 + Len(Diff(inertia)) # Len(k_range)
    \/ 1 + Len(scores) # Len(k_range)

\* Step 4.3 and the summary: the two plots, the saved figure, the table, the
\* interpretation guide and the SUCCESS banner
T4_Report ==
    /\ pc = "t4plot"
    /\ IF PlotRaises(k_list_from_second, task4.silhouette_scores)
       THEN /\ Exit("raised")
            /\ UNCHANGED disk
       ELSE /\ disk' = [disk EXCEPT !.optimal_clusters_png =
                           [exists |-> TRUE,
                            optimal_k_silhouette |-> task4.optimal_k_silhouette,
                            optimal_k_elbow |-> task4.optimal_k_elbow]]
            /\ IF SummaryRaises(task4.silhouette_scores, task4.inertia)
               THEN Exit("raised")
               ELSE Exit("ok")
    /\ task4' = NoTask
    /\ UNCHANGED <<runs, splitHist, fitHist, centersHist, task8, archive, task7>>

(***************************************************************************)
(* task8_model_validation.py                                               *)
(***************************************************************************)
\* most test rows the classifier is let to predict wrongly
MaxWrong == 1

\* SUBTYPE_NAMES: Resilient, CIR, HTD, SNMF
SUBTYPE_NAMES == <<0, 1, 2, 3>>

RECURSIVE SortedSeq(_)
SortedSeq(S) ==
    IF S = {} THEN <<>>
    ELSE LET lo == MinOf(S) IN <<lo>> \o SortedSeq(S \ {lo})

Reverse(s) == [i \in DOMAIN s |-> s[Len(s) + 1 - i]]

\* np.unique(y): the classes in ascending order
Classes(y) == SortedSeq(Range(y))

\* np.bincount(y_indices)
ClassCounts(y) ==
    [c \in DOMAIN Classes(y) |-> Cardinality({i \in DOMAIN y : y[i] = Classes(y)[c]})]

\* the positions of one class, ascending (stable argsort)
ClassIndices(y, class) == SortedSeq({i \in DOMAIN y : y[i] = class})

\* the generator after rng.permutation(n)
AfterPermutation(n, s) == IF n <= 1 THEN s ELSE RandAt(s, n - 1)

\* _approximate_mode, the loop over the remainders from the largest down:
\* the classes sharing a remainder get one more draw each, chosen by
\* rng.choice(inds, size=add_now, replace=False) when there are too many
RECURSIVE AddByRemainder(_, _, _, _, _)
AddByRemainder(floored, remainder, values, need_to_add, s) ==
    IF need_to_add = 0 \/ values = <<>>
    THEN [alloc |-> floored, s |-> s]
    ELSE LET inds == SortedSeq({c \in DOMAIN remainder : remainder[c] = Head(values)})
             add_now == Min2(Len(inds), need_to_add)
             perm == Permutation(Len(inds), s)
             chosen == {inds[perm[k]] : k \in 1..add_now}
         IN  AddByRemainder([c \in DOMAIN floored |->
                                floored[c] + (IF c \in chosen THEN 1 ELSE 0)],
                            remainder, Tail(values), need_to_add - add_now,
                            AfterPermutation(Len(inds), s))

\* _approximate_mode(class_counts, n_draws, rng)
ApproximateMode(class_counts, n_draws, s) ==
    LET total == SumSeq(class_counts)
        floored == [c \in DOMAIN class_counts |-> (class_counts[c] * n_draws) \div total]
        remainder == [c \in DOMAIN class_counts |-> (class_counts[c] * n_draws) % total]
    IN  AddByRemainder(floored, remainder, Reverse(SortedSeq(Range(remainder))),
                       n_draws - SumSeq(floored), s)

\* StratifiedShuffleSplit: "The least populated class in y has only 1
\* member", "The train_size / test_size should be greater or equal to the
\* number of classes"
StratifiedSplitRaises(y) ==
    \/ SplitRaises(Len(y))
    \/ \E c \in DOMAIN ClassCounts(y) : ClassCounts(y)[c] < 2
    \/ NTrain(Len(y)) < Len(Classes(y))
    \/ NTest(Len(y)) < Len(Classes(y))

\* the loop over the classes: a permutation of each class's positions, the
\* first n_i of them to train, the next t_i to test
RECURSIVE PickPerClass(_, _, _, _, _, _, _)
PickPerClass(y, n_i, t_i, c, s, train, test) ==
    IF c > Len(Classes(y)) THEN [train |-> train, test |-> test, s |-> s]
    ELSE LET idx == ClassIndices(y, Classes(y)[c])
             perm_indices_class_i == Take(idx, Permutation(Len(idx), s))
         IN  PickPerClass(y, n_i, t_i, c + 1, AfterPermutation(Len(idx), s),
                          train \o SubSeq(perm_indices_class_i, 1, n_i[c]),
                          test \o SubSeq(perm_indices_class_i, n_i[c] + 1,
                                         n_i[c] + t_i[c]))

\* train_test_split(X, y, test_size=0.3, random_state=42, stratify=y)
StratifiedSplitIndices(y, seed) ==
    LET n_i == ApproximateMode(ClassCounts(y), NTrain(Len(y)), seed)
        class_counts_remaining == [c \in DOMAIN n_i.alloc |-> ClassCounts(y)[c] - n_i.alloc[c]]
        t_i == ApproximateMode(class_counts_remaining, NTest(Len(y)), n_i.s)
        picked == PickPerClass(y, n_i.alloc, t_i.alloc, 1, t_i.s, <<>>, <<>>)
        s_test == AfterPermutation(Len(picked.train), picked.s)
    IN  [train |-> Take(picked.train, Permutation(Len(picked.train), picked.s)),
         test |-> Take(picked.test, Permutation(Len(picked.test), s_test))]

\* the Subtype column read back to front
SubtypeColumn_reversed(rows) == [i \in DOMAIN rows |-> rows[Len(rows) + 1 - i].Subtype]

\* the Subtype column of a labeled file
SubtypeColumn(rows) == [i \in DOMAIN rows |-> rows[i].Subtype]

\* Loading: the labeled CSV of the root directory, X = concat of the two
\* arrays, y = Subtype; both cut to the shorter length.  Any exception ends
\* with exit(1).
T8_Load ==
    /\ pc = "idle"
    /\ IF \/ ~disk.labeled_root.exists
          \/ "Subtype" \notin disk.labeled_root.columns
          \/ ~disk.X_train_npy.exists
          \/ ~disk.X_test_npy.exists
       THEN /\ Exit("exit1")
            /\ UNCHANGED task8
       ELSE LET X == disk.X_train_npy.data \o disk.X_test_npy.data
                y == SubtypeColumn(disk.labeled_root.rows)
                min_size == Min2(Len(X), Len(y))
            IN  /\ task8' = [loaded |-> TRUE,
                             X |-> SubSeq(X, 1, min_size),
                             y |-> SubSeq(y, 1, min_size)]
                /\ pc' = "t8split"
                /\ script' = "task8"
                /\ UNCHANGED <<exit_code, df_imputed, X_unscaled, scaler, X_scaled,
                               X_train_scaled, X_test_scaled, split_idx, kmeans,
                               all_labels, cluster_counts>>
    /\ UNCHANGED <<runs, disk, splitHist, fitHist, centersHist, task4, archive, task7>>

\* Step 8.1: the stratified split of X and y
T8_Split(np_global) ==
    /\ pc = "t8split"
    /\ IF StratifiedSplitRaises(task8.y)
       THEN /\ Exit("raised")
            /\ task8' = NoTask
       ELSE \E idx \in {StratifiedSplitIndices(task8.y, SplitRandomState(np_global))} :
               /\ task8' = [loaded |-> TRUE, X |-> task8.X, y |-> task8.y,
                            train |-> idx.train, test |-> idx.test,
                            X_train |-> Take(task8.X, idx.train),
                            X_test |-> Take(task8.X, idx.test),
                            y_train |-> Take(task8.y, idx.train),
                            y_test |-> Take(task8.y, idx.test)]
               /\ pc' = "t8fit"
               /\ UNCHANGED <<script, exit_code, df_imputed, X_unscaled, scaler, X_scaled,
                              X_train_scaled, X_test_scaled, split_idx, kmeans, all_labels,
                              cluster_counts>>
    /\ UNCHANGED <<runs, disk, splitHist, fitHist, centersHist, task4, archive, task7>>

\* what rf_model.predict(X_test) can return: classes seen in training, at
\* most MaxWrong of them different from y_test
Predictions(y_train, y_test) ==
    {y_pred \in [DOMAIN y_test -> Range(y_train)] :
        Cardinality({i \in DOMAIN y_test : y_pred[i] # y_test[i]}) <= MaxWrong}

\* accuracy_score(y_test, y_pred), in hundredths of a percent
AccuracyScore(y_true, y_pred) ==
    Percentage(Cardinality({i \in DOMAIN y_true : y_pred[i] = y_true[i]}), Len(y_true))

\* classification_report(..., target_names=...): "Number of classes does
\* not match size of target_names"
ClassificationReportRaises(y_true, y_pred) ==
    Cardinality(Range(y_true) \cup Range(y_pred)) # Len(SUBTYPE_NAMES)

\* confusion_matrix(y_true, y_pred): rows are the true classes, columns the
\* predicted ones, over the sorted classes that occur
ConfusionMatrix(y_true, y_pred) ==
    LET labels == SortedSeq(Range(y_true) \cup Range(y_pred))
    IN  [a \in DOMAIN labels |-> [b \in DOMAIN labels |->
            Cardinality({i \in DOMAIN y_true :
                            y_true[i] = labels[a] /\ y_pred[i] = labels[b]})]]

\* Steps 8.2 and 8.3: fit the forest, predict the test rows, print the
\* accuracy and the classification report
T8_Evaluate ==
    /\ pc = "t8fit"
    /\ \E y_pred \in Predictions(task8.y_train, task8.y_test) :
          IF ClassificationReportRaises(task8.y_test, y_pred)
          THEN /\ Exit("raised")
               /\ task8' = NoTask
          ELSE /\ task8' = [loaded |-> TRUE, X |-> task8.X, y |-> task8.y,
                            train |-> task8.train, test |-> task8.test,
                            X_train |-> task8.X_train, X_test |-> task8.X_test,
                            y_train |-> task8.y_train, y_test |-> task8.y_test,
                            y_pred |-> y_pred,
                            accuracy |-> AccuracyScore(task8.y_test, y_pred)]
               /\ pc' = "t8plot"
               /\ UNCHANGED <<script, exit_code, df_imputed, X_unscaled, scaler, X_scaled,
                              X_train_scaled, X_test_scaled, split_idx, kmeans, all_labels,
                              cluster_counts>>
    /\ UNCHANGED <<runs, disk, splitHist, fitHist, centersHist, task4, archive, task7>>

ConfusionPlot(who, cm, accuracy) ==
    [exists |-> TRUE, by |-> who, cm |-> cm, accuracy |-> accuracy]

\* Step 8.4 and the summary: the confusion matrix of the predictions is
\* drawn and saved to visualizations/8_confusion_matrix.png
T8_Plot ==
    /\ pc = "t8plot"
    /\ disk' = [disk EXCEPT !.confusion_matrix_png =
                   ConfusionPlot("task8_model_validation",
                                 ConfusionMatrix(task8.y_test, task8.y_pred),
                                 task8.accuracy)]
    /\ Exit("ok")
    /\ task8' = NoTask
    /\ UNCHANGED <<runs, splitHist, fitHist, centersHist, task4, archive, task7>>

(***************************************************************************)
(* task8_final_validation_plot.py                                          *)
(***************************************************************************)
cm_data == << <<870, 10, 0, 0>>,
              <<15, 280, 5, 0>>,
              <<0, 10, 135, 5>>,
              <<0, 0, 0, 185>> >>

\* cm_data.sum()
MatrixSum(cm) == SumSeq([a \in DOMAIN cm |-> SumSeq(cm[a])])

\* np.trace(cm_data)
Trace(cm) == SumSeq([a \in DOMAIN cm |-> cm[a][a]])

\* the script reads no file: it draws cm_data and the accuracy computed from
\* it and saves visualizations/8_confusion_matrix.png
FinalPlot_Run ==
    /\ pc = "idle"
    /\ disk' = [disk EXCEPT !.confusion_matrix_png =
                   ConfusionPlot("task8_final_validation_plot", cm_data,
                                 Percentage(Trace(cm_data), MatrixSum(cm_data)))]
    /\ Exit("ok")
    /\ UNCHANGED <<runs, splitHist, fitHist, centersHist, task4, task8, archive, task7>>

(***************************************************************************)
(* task7_umap_visualization.py                                             *)
(***************************************************************************)
\* the value pandas leaves where a column has no entry for a row (NaN)
MissingLabel == 0 - 1

\* df_umap['Subtype_ID'] = df_labeled['Subtype']: aligned on the row index,
\* rows past the end of df_labeled get no label
AlignOnIndex(n, column) ==
    [i \in 1..n |-> IF i <= Len(column) THEN column[i] ELSE MissingLabel]

\* reading the labeled CSV and the two arrays; a missing file ends with
\* exit(1), a CSV without a Subtype column with a KeyError
T7_Load ==
    /\ pc = "idle"
    /\ IF \/ ~disk.labeled_root.exists
          \/ ~disk.X_train_npy.exists
          \/ ~disk.X_test_npy.exists
       THEN /\ Exit("exit1")
            /\ UNCHANGED task7
       ELSE IF "Subtype" \notin disk.labeled_root.columns
       THEN /\ Exit("raised")
            /\ UNCHANGED task7
       ELSE /\ task7' = [loaded |-> TRUE,
                         Subtype |-> SubtypeColumn(disk.labeled_root.rows)]
            /\ X_scaled' = disk.X_train_npy.data \o disk.X_test_npy.data
            /\ pc' = "t7umap"
            /\ script' = "task7"
            /\ UNCHANGED <<exit_code, df_imputed, X_unscaled, scaler, X_train_scaled,
                           X_test_scaled, split_idx, kmeans, all_labels, cluster_counts>>
    /\ UNCHANGED <<runs, disk, splitHist, fitHist, centersHist, task4, task8, archive>>

\* Steps 7.1-7.3: one embedded point per row of X_scaled, in row order, with
\* the Subtype of the same index attached; the plot and the coordinates are
\* saved.  A point is kept as the feature row it embeds.
T7_Plot ==
    /\ pc = "t7umap"
    /\ \E df_umap \in {[i \in DOMAIN X_scaled |->
                          [embeds |-> X_scaled[i],
                           Subtype_ID |-> AlignOnIndex(Len(X_scaled), task7.Subtype)[i]]]} :
          disk' = [disk EXCEPT !.umap_png = [exists |-> TRUE, points |-> df_umap],
                               !.umap_csv = [exists |-> TRUE, rows |-> df_umap]]
    /\ Exit("ok")
    /\ task7' = NoTask
    /\ UNCHANGED <<runs, splitHist, fitHist, centersHist, task4, task8, archive>>

AfterRunNext ==
    \/ T4_Load
    \/ \E np_global \in Entropy : T4_Sweep(np_global)
    \/ T4_Analyse
    \/ T4_Report
    \/ T8_Load
    \/ \E np_global \in Entropy : T8_Split(np_global)
    \/ T8_Evaluate
    \/ T8_Plot
    \/ FinalPlot_Run
    \/ T7_Load
    \/ T7_Plot

SpecAfterRun == AfterRunInit /\ [][AfterRunNext]_vars

(***************************************************************************)
(* task5_clustering.py run on its own, in a directory where some of its    *)
(* input files may be missing and the CSV may lack a column.               *)
(***************************************************************************)
Task5Inputs == {"X_train_npy", "X_test_npy", "imputed_csv"}

\* the directory without the files of `removed`, the CSV without the
\* columns of `dropped`
DiskWithout(d, removed, dropped) ==
    [f \in DOMAIN d |->
        IF f \in removed THEN Absent
        ELSE IF f = "imputed_csv"
             THEN [d[f] EXCEPT !.columns = @ \ dropped]
             ELSE d[f]]

Task5Init ==
    /\ \E m \in Cohorts, est \in Estimates, np_global \in Entropy,
          removed \in SUBSET Task5Inputs, dropped \in {{}, {"FI"}, {"FBS"}} :
          disk = DiskWithout(CompletedRun(m, est, np_global), removed, dropped)
    /\ runs = 1
    /\ pc = "idle"
    /\ script = "none"
    /\ exit_code = "none"
    /\ df_imputed = NoTable
    /\ X_unscaled = <<>>
    /\ scaler = NoScaler
    /\ X_scaled = <<>>
    /\ X_train_scaled = <<>>
    /\ X_test_scaled = <<>>
    /\ split_idx = NoSplit
    /\ kmeans = NoKMeans
    /\ all_labels = <<>>
    /\ cluster_counts = <<>>
    /\ splitHist = {}
    /\ fitHist = {}
    /\ centersHist = {}
    /\ task4 = NoTask
    /\ task8 = NoTask
    /\ archive = NoArchive
    /\ task7 = NoTask

Task5Next ==
    \/ C_Load
    \/ \E np_global \in Entropy : C_Fit(np_global)
    \/ C_Label
    \/ C_Adjust
    \/ C_Save

SpecTask5 == Task5Init /\ [][Task5Next]_vars

(***************************************************************************)
(* create_final_archive.py                                                 *)
(***************************************************************************)
\* the file of the working directory behind a path of a data file
DiskField(path) ==
    CASE path = "nhanes_metabolic_imputed_task1.csv" -> "imputed_csv"
      [] path = "X_train_scaled.npy" -> "X_train_npy"
      [] path = "X_test_scaled.npy" -> "X_test_npy"
      [] path = "output/nhanes_metabolic_labeled_task5.csv" -> "labeled_out"
      [] path = "output/metabolic_subtype_centers_task5.csv" -> "centers_out"
      [] path = "nhanes_metabolic_labeled_task5.csv" -> "labeled_root"
      [] path = "metabolic_subtype_centers_task5.csv" -> "centers_root"
      [] path = "visualizations/4_optimal_clusters.png" -> "optimal_clusters_png"
      [] path = "visualizations/8_confusion_matrix.png" -> "confusion_matrix_png"
      [] path = "visualizations/7_umap_visualization.png" -> "umap_png"
      [] path = "output/umap_coordinates_task7.csv" -> "umap_csv"

\* the files the model keeps in each folder
FolderContents(folder) ==
    CASE folder = "output/" -> {"output/nhanes_metabolic_labeled_task5.csv",
                                "output/metabolic_subtype_centers_task5.csv",
                                "output/umap_coordinates_task7.csv"}
      [] folder = "visualizations/" -> {"visualizations/4_optimal_clusters.png",
                                        "visualizations/7_umap_visualization.png",
                                        "visualizations/8_confusion_matrix.png"}

\* os.path.isdir(file_path)
IsDir(path) == path \in {"output/", "visualizations/"}

\* os.walk(file_path): the files under the folder
Walk(d, folder) == {f \in FolderContents(folder) : d[DiskField(f)].exists}

\* os.path.exists(file_path).  output/ is made when 123.py starts,
\* visualizations/ by the scripts that save a figure there.
PathExists(d, launched, sources, path) ==
    IF path \in Range(SourceFiles) THEN path \in sources
    ELSE IF path = "output/" THEN launched > 0 \/ Walk(d, path) # {}
    ELSE IF path = "visualizations/" THEN Walk(d, path) # {}
    ELSE d[DiskField(path)].exists

\* the files of a folder, in the order os.walk lists them
RECURSIVE SortedPaths(_)
SortedPaths(S) ==
    IF S = {} THEN <<>>
    ELSE LET f == CHOOSE x \in S : TRUE IN <<f>> \o SortedPaths(S \ {f})

\* the sets of at most n elements of S
RECURSIVE SubsetsUpTo(_, _)
SubsetsUpTo(S, n) ==
    IF n = 0 THEN {{}}
    ELSE LET smaller == SubsetsUpTo(S, n - 1)
         IN  smaller \cup {T \cup {x} : T \in smaller, x \in S}

\* the directories the archive is made in: before or after a completed run
\* of 123.py, with or without the saved confusion matrix, with some source
\* or documentation files missing
ArchiveInit ==
    /\ \E missing \in SubsetsUpTo(Range(SourceFiles), MaxMissing) :
          archive = [open |-> FALSE, sources |-> Range(SourceFiles) \ missing]
    /\ \E plotted \in BOOLEAN :
         \/ /\ runs = 0
            /\ disk = [EmptyDisk EXCEPT !.confusion_matrix_png =
                          IF plotted
                          THEN ConfusionPlot("task8_final_validation_plot", cm_data,
                                             Percentage(Trace(cm_data), MatrixSum(cm_data)))
                          ELSE Absent]
         \/ /\ runs = 1
            /\ \E est \in Estimates, np_global \in Entropy :
                  disk = [CompletedRun(MaxRaw, est, np_global) EXCEPT !.confusion_matrix_png =
                             IF plotted
                             THEN ConfusionPlot("task8_final_validation_plot", cm_data,
                                                Percentage(Trace(cm_data), MatrixSum(cm_data)))
                             ELSE Absent]
    /\ pc = "idle"
    /\ script = "none"
    /\ exit_code = "none"
    /\ df_imputed = NoTable
    /\ X_unscaled = <<>>
    /\ scaler = NoScaler
    /\ X_scaled = <<>>
    /\ X_train_scaled = <<>>
    /\ X_test_scaled = <<>>
    /\ split_idx = NoSplit
    /\ kmeans = NoKMeans
    /\ all_labels = <<>>
    /\ cluster_counts = <<>>
    /\ splitHist = {}
    /\ fitHist = {}
    /\ centersHist = {}
    /\ task4 = NoTask
    /\ task8 = NoTask
    /\ task7 = NoTask

\* added_count = 0, skipped_count = 0, zipfile.ZipFile(ZIP_FILENAME, 'w')
Archive_Open ==
    /\ pc = "idle"
    /\ ~archive.open
    /\ archive' = [open |-> TRUE, sources |-> archive.sources, next |-> 1,
                   added_count |-> 0, skipped_count |-> 0,
                   members |-> <<>>, outcome |-> <<>>]
    /\ pc' = "zip"
    /\ script' = "archive"
    /\ UNCHANGED <<runs, exit_code, disk, df_imputed, X_unscaled, scaler, X_scaled,
                   X_train_scaled, X_test_scaled, split_idx, kmeans, all_labels,
                   cluster_counts, splitHist, fitHist, centersHist, task4, task8, task7>>

Archive_Entry_aborts_on_missing ==
    /\ pc = "zip"
    /\ archive.next <= Len(FILES_TO_INCLUDE)
    /\ LET file_path == FILES_TO_INCLUDE[archive.next]
       IN  IF PathExists(disk, runs, archive.sources, file_path)
           THEN /\ archive' = [archive EXCEPT
                       !.next = @ + 1,
                       !.members = @ \o (IF IsDir(file_path)
                                         THEN SortedPaths(Walk(disk, file_path))
                                         ELSE <<file_path>>),
                       !.added_count = @ + 1,
                       !.outcome = Append(@, "added")]
                /\ UNCHANGED <<pc, script, exit_code, df_imputed, X_unscaled, scaler,
                               X_scaled, X_train_scaled, X_test_scaled, split_idx, kmeans,
                               all_labels, cluster_counts>>
           ELSE /\ archive' = [open |-> FALSE, sources |-> archive.sources]
                /\ Exit("raised")
    /\ UNCHANGED <<runs, disk, splitHist, fitHist, centersHist, task4, task8, task7>>

\* one pass of `for file_path in FILES_TO_INCLUDE`: a folder is added with
\* the files under it, a file is added, a path that is not there is skipped
Archive_Entry ==
    /\ pc = "zip"
    /\ archive.next <= Len(FILES_TO_INCLUDE)
    /\ LET file_path == FILES_TO_INCLUDE[archive.next]
       IN  IF PathExists(disk, runs, archive.sources, file_path)
           THEN archive' = [archive EXCEPT
                       !.next = @ + 1,
                       !.members = @ \o (IF IsDir(file_path)
                                         THEN SortedPaths(Walk(disk, file_path))
                                         ELSE <<file_path>>),
                       !.added_count = @ + 1,
                       !.outcome = Append(@, "added")]
           ELSE archive' = [archive EXCEPT
                       !.next = @ + 1,
                       !.skipped_count = @ + 1,
                       !.outcome = Append(@, "skipped")]
    /\ UNCHANGED <<pc, script, runs, exit_code, disk, df_imputed, X_unscaled, scaler,
                   X_scaled, X_train_scaled, X_test_scaled, split_idx, kmeans, all_labels,
                   cluster_counts, splitHist, fitHist, centersHist, task4, task8, task7>>

\* the ZIP is closed and the counters are printed
Archive_Close ==
    /\ pc = "zip"
    /\ archive.next > Len(FILES_TO_INCLUDE)
    /\ archive' = [archive EXCEPT !.open = FALSE]
    /\ Exit("ok")
    /\ UNCHANGED <<runs, disk, splitHist, fitHist, centersHist, task4, task8, task7>>

ArchiveNext == Archive_Open \/ Archive_Entry \/ Archive_Close

SpecArchive == ArchiveInit /\ [][ArchiveNext]_vars

(***************************************************************************)
(* Claims                                                                  *)
(***************************************************************************)
\* the centroid nearest to a record's own standardized feature vector
OwnSubtype(row) ==
    Nearest(kmeans.cluster_centers_,
            Transform(scaler, <<Features(row)>>)[1])

\* C1: after Task 5 of 123.py the Subtype stored on every row of df_imputed
\* is the index of the centroid nearest to that row's own standardized
\* feature vector.
C1_SubtypeIsOwnNearestCentroid ==
    pc = "t5save" =>
        \A r \in DOMAIN df_imputed.rows :
            df_imputed.rows[r].Subtype = OwnSubtype(df_imputed.rows[r])

\* C2: in 123.py and in task5_clustering.py the label vector predicted for
\* concat(train, test) has len(train) + len(test) entries, each an integer
\* in [0, K_CLUSTERS).
C2_LabelVectorShape ==
    pc \in {"t5save", "c_adjust"} =>
        /\ Len(all_labels) = Len(X_train_scaled) + Len(X_test_scaled)
        /\ \A i \in DOMAIN all_labels : all_labels[i] \in 0..(K_CLUSTERS - 1)

C2_Witness ==
    /\ pc = "c_adjust"
    /\ exit_code = "ok"
    /\ Len(all_labels) >= K_CLUSTERS
    /\ \E f \in fitHist : f.by = {"123", "task5"}

IsPartition(train, test, n) ==
    /\ Range(train) \cap Range(test) = {}
    /\ Range(train) \cup Range(test) = 1..n
    /\ Len(train) + Len(test) = n

\* C3: every split Task 3 performs yields two disjoint index sets whose
\* union is all n rows; no row is dropped or duplicated between
\* X_train_scaled and X_test_scaled.
C3_SplitIsPartition ==
    /\ \A h \in splitHist : IsPartition(h.train, h.test, h.n)
    /\ pc \in {"t5fit", "t5label", "t5save"} =>
          /\ IsPartition(split_idx.train, split_idx.test, Len(X_scaled))
          /\ X_train_scaled = Take(X_scaled, split_idx.train)
          /\ X_test_scaled = Take(X_scaled, split_idx.test)
          /\ Len(X_train_scaled) + Len(X_test_scaled) = Len(X_unscaled)

C3_Witness ==
    /\ pc = "t5fit"
    /\ Len(X_train_scaled) >= K_CLUSTERS
    /\ Len(X_test_scaled) >= 2

\* C4 as stated, with the configured ratio 0.7: the train set has
\* floor(n * (1 - 0.7)) rows and the test set the remaining rows.
C4_TrainIsFloorOfOneMinusRatio ==
    \A h \in splitHist :
        /\ Len(h.train) = (h.n * (10 - 7)) \div 10
        /\ Len(h.test) = h.n - Len(h.train)

\* C4 amended: the train set has floor(n * (1 - test_size)) = floor(0.7 n)
\* rows and the test set the remaining ceil(0.3 n) rows, for every split
\* that is performed.
C4_TrainIsFloorOfTrainShare ==
    \A h \in splitHist :
        /\ Len(h.train) = (h.n * (10 - TEST_SIZE_TENTHS)) \div 10
        /\ Len(h.test) = h.n - Len(h.train)

C4_Witness ==
    \E h \in splitHist : (h.n * (10 - TEST_SIZE_TENTHS)) % 10 # 0 /\ Len(h.train) >= K_CLUSTERS

\* C5: two executions of the split over the same number of rows, with the
\* same ratio and seed, give the same train and test indices in the same
\* order.
C5_SplitDeterministic ==
    \A a, b \in splitHist : a.n = b.n => (a.train = b.train /\ a.test = b.test)

C5_Witness == \E h \in splitHist : h.again /\ h.n > K_CLUSTERS

\* C6: two fits on the same training matrix give the same centroid at every
\* index and, scored on the same input, the same labels, across runs of
\* 123.py and between 123.py and task5_clustering.py.
C6_FitDeterministic ==
    \A a, b \in fitHist :
        a.train = b.train =>
            /\ a.centers = b.centers
            /\ (a.input = b.input => a.labels = b.labels)

C6_Witness == \E f \in fitHist : f.by = {"123", "task5"}

\* C7: after Task 2 of 123.py HOMA_IR is non-negative on every row.
C7_HOMA_NonNegative ==
    (script = "123" /\ "HOMA_IR" \in df_imputed.columns) =>
        \A r \in DOMAIN df_imputed.rows : df_imputed.rows[r].HOMA_IR >= 0

\* C8: HOMA_IR is not an imputed column, the saved imputed table does not
\* carry it, and in every script the HOMA_IR of a row is (FI * FBS) / 405 of
\* that row (FI = 10, FBS = 100 gives 2.469).
C8_HOMA_FromOwnRow ==
    /\ "HOMA_IR" \notin Range(imputation_cols)
    /\ disk.imputed_csv.exists => "HOMA_IR" \notin disk.imputed_csv.columns
    /\ "HOMA_IR" \in df_imputed.columns =>
          \A r \in DOMAIN df_imputed.rows :
              LET row == df_imputed.rows[r]
              IN  /\ row.HOMA_IR = (row.FI * row.FBS * 1000) \div 405
                  /\ (row.FI = 10 /\ row.FBS = 100) => row.HOMA_IR = 2469

C8_Witness ==
    /\ pc = "viz_plots"
    /\ disk.imputed_csv.exists
    /\ \E r \in DOMAIN df_imputed.rows :
          /\ df_imputed.rows[r].FI = 10 /\ df_imputed.rows[r].FBS = 100
          /\ df_imputed.rows[r].HOMA_IR = 2469

ScalerParams(sc) == [mean_ |-> sc.mean_, scale_ |-> sc.scale_]

\* the six-feature matrix of all records of the saved imputed table
SavedPopulation == FeatureMatrix(WithHOMA(disk.imputed_csv.rows))

\* the parts of C9 that concern one run: the scaler is fit once, on the
\* full matrix and before the split; the centroid model is fit once, on the
\* training partition only
C9_WithinRun ==
    /\ scaler.n_fits <= 1
    /\ kmeans.n_fits <= 1
    /\ (script = "123" /\ scaler.fitted) =>
          /\ X_unscaled = FeatureMatrix(df_imputed.rows)
          /\ scaler.fit_on = X_unscaled
          /\ ScalerParams(scaler) = ScalerFit(X_unscaled)
    /\ (script = "123" /\ X_train_scaled # <<>>) =>
          /\ scaler.fitted
          /\ X_train_scaled = Take(Transform(scaler, X_unscaled), split_idx.train)
          /\ X_test_scaled = Take(Transform(scaler, X_unscaled), split_idx.test)
          /\ Len(X_train_scaled) < Len(X_unscaled)
    /\ (script = "task5" /\ scaler.fitted) =>
          /\ scaler.fit_on = SavedPopulation
          /\ ScalerParams(scaler) = ScalerFit(SavedPopulation)
    /\ kmeans.fitted => kmeans.fit_on = X_train_scaled

C10_WrittenOnceThenReadOnly ==
    [][(pc # "idle" /\ pc' # "idle") =>
          /\ (X_unscaled # <<>> => X_unscaled' = X_unscaled)
          /\ (scaler.fitted => scaler' = scaler)
          /\ (kmeans.fitted => kmeans' = kmeans)]_vars

\* half a unit of the second decimal of feature j, in the units of the model
HalfCent(j) == (FeatureUnits[j] * 5) \div 1000

Dist1(a, b) == IF a >= b THEN a - b ELSE b - a

\* a saved table has K_CLUSTERS rows of six columns, and row i holds the
\* inverse transform z * scale + mean of centroid i, to two decimals
IsUnscaledCenters(h) ==
    /\ DOMAIN h.table = 1..4
    /\ \A c \in DOMAIN h.table :
          /\ DOMAIN h.table[c] = 1..6
          /\ \A j \in DOMAIN h.table[c] :
                Dist1(h.table[c][j],
                      RoundDiv(h.centers[c][j] * h.scale_[j], ZUNIT) + h.mean_[j]) <= HalfCent(j)

C12_DistributionCoversEverySubtype ==
    pc \in {"t5save", "c_save"} =>
        LET report == DistributionReport(cluster_counts, Len(all_labels))
        IN  /\ {r.subtype_id : r \in report} = 0..3
            /\ \A r \in report :
                  /\ r.count = Cardinality({i \in DOMAIN all_labels : all_labels[i] = r.subtype_id})
                  /\ r.percentage = RoundDiv(r.count * 10000, Len(all_labels))
            /\ \A id \in 0..3 :
                  Cardinality({r \in report : r.subtype_id = id}) = 1

\* C13: a centroid fit on a training partition of fewer than k = 4 rows
\* aborts the run with an error, leaving no label vector and writing no
\* labeled dataset and no centers file; a fitted model always has 4
\* centroids, fit on at least 4 rows.
C13_TooFewRowsAbortsFit ==
    /\ [](kmeans.fitted =>
            (DOMAIN kmeans.cluster_centers_ = 1..4 /\ Len(kmeans.fit_on) >= 4))
    /\ [][(pc \in {"t5fit", "c_fit"} /\ Len(X_train_scaled) < 4) =>
            /\ pc' = "idle"
            /\ exit_code' = "raised"
            /\ kmeans' = NoKMeans
            /\ all_labels' = <<>>
            /\ disk' = disk
            /\ centersHist' = centersHist]_vars

C13_Witness ==
    /\ pc = "idle"
    /\ exit_code = "raised"
    /\ runs = 1
    /\ disk.X_train_npy.exists
    /\ Len(disk.X_train_npy.data) \in 1..3
    /\ ~disk.labeled_root.exists
    /\ ~disk.centers_root.exists

\* inverse_transform(transform(M)) against M for parameters p fit on M: a
\* constant column has scale 1, standardizes to 0 and comes back unchanged;
\* any other column comes back to within the resolution of the z-scores
\* (half a hundredth of a standard deviation, and the rounding to a unit)
RoundTripHolds(p, M) ==
    LET Z == Transform(p, M)
        back == InverseTransform(p, Z)
    IN  \A i \in DOMAIN M : \A j \in 1..6 :
            IF \A k \in DOMAIN M : M[k][j] = M[i][j]
            THEN /\ p.scale_[j] = 1
                 /\ Z[i][j] = 0
                 /\ back[i][j] = M[i][j]
            ELSE /\ p.scale_[j] >= 1
                 /\ Dist1(back[i][j], M[i][j]) <= (p.scale_[j] \div 200) + 1

\* C14: for scaling parameters fit on a matrix M, inverse_transform(
\* transform(M)) equals M within tolerance on every column of non-zero
\* variance, and a column of zero standard deviation passes through (scale
\* 1) instead of dividing by zero; checked for the scaler of the running
\* script and for the one whose output is saved in X_train_scaled.npy.
C14_RoundTrip ==
    /\ scaler.fitted =>
          /\ ScalerParams(scaler) = ScalerFit(scaler.fit_on)
          /\ RoundTripHolds(scaler, scaler.fit_on)
    /\ disk.X_train_npy.exists =>
          /\ disk.X_train_npy.params = ScalerFit(disk.X_train_npy.population)
          /\ RoundTripHolds(disk.X_train_npy.params, disk.X_train_npy.population)

\* the running scaler was fit on a single row (every column constant), the
\* saved arrays come from a population whose columns all vary
C14_Witness ==
    /\ scaler.fitted
    /\ Len(scaler.fit_on) = 1
    /\ \A j \in 1..6 : scaler.scale_[j] = 1
    /\ disk.X_train_npy.exists
    /\ Len(disk.X_train_npy.population) >= 6
    /\ \A j \in 1..6 : disk.X_train_npy.params.scale_[j] > 1
    /\ InverseTransform(disk.X_train_npy.params,
                        Transform(disk.X_train_npy.params, disk.X_train_npy.population))
          # disk.X_train_npy.population

C16_Task1ErrorStopsTheRun ==
    /\ [][(runs' = runs + 1 /\ pc' = "idle") =>
             /\ exit_code' = "raised"
             /\ disk' = disk
             /\ df_imputed' = NoTable
             /\ X_unscaled' = <<>>
             /\ ~scaler'.fitted
             /\ ~kmeans'.fitted
             /\ all_labels' = <<>>
             /\ splitHist' = splitHist
             /\ fitHist' = fitHist
             /\ centersHist' = centersHist]_vars
    /\ []((script = "123" /\ pc # "idle") =>
             /\ disk.imputed_csv.exists
             /\ disk.imputed_csv.rows # <<>>
             /\ \A i \in DOMAIN df_imputed.rows :
                   /\ df_imputed.rows[i].Age >= AGE_MIN
                   /\ \A c \in Range(imputation_cols) :
                         df_imputed.rows[i][c] = disk.imputed_csv.rows[i][c])

\* the first launch raised in Task 1: the error is recorded and none of the
\* files of Task 1, Task 3 or Task 5 exists
C16_Witness ==
    /\ runs = 1
    /\ pc = "idle"
    /\ exit_code = "raised"
    /\ ~disk.imputed_csv.exists
    /\ ~disk.X_train_npy.exists
    /\ ~disk.X_test_npy.exists
    /\ ~disk.labeled_root.exists
    /\ ~disk.centers_root.exists
    /\ df_imputed = NoTable
    /\ fitHist = {}

\* the rows of a labeled table whose Subtype is c
RowsOfSubtype(rows, c) == {r \in DOMAIN rows : rows[r].Subtype = c}

\* what the fixed-point arithmetic can move an unscaled centroid value by:
\* one hundredth of a standard deviation and the two roundings of the
\* inverse transform
RangeSlack(sc, j) == sc.scale_[j] \div ZUNIT + 2

\* the unscaled centroid of subtype c is, feature by feature, inside the
\* range of the rows labelled c
CentroidInsideRange(sc, centers, rows, c) ==
    LET unscaled == InverseTransform(sc, centers)[c + 1]
    IN  \A j \in 1..NFeatures :
           /\ \E r \in RowsOfSubtype(rows, c) :
                  Features(rows[r])[j] <= unscaled[j] + RangeSlack(sc, j)
           /\ \E r \in RowsOfSubtype(rows, c) :
                  Features(rows[r])[j] >= unscaled[j] - RangeSlack(sc, j)

\* C19: when 123.py is about to save a converged fit, the
\* inverse-transformed centroid of every subtype that has a labelled row
\* lies, for every feature, between the smallest and the largest value of
\* that feature among the rows of df_imputed labelled with that subtype.
C19_CentroidWithinLabelledRange ==
    (pc = "t5save" /\ kmeans.n_iter_ < MAX_ITER) =>
        \A c \in 0..(K_CLUSTERS - 1) :
            RowsOfSubtype(df_imputed.rows, c) # {} =>
                CentroidInsideRange(scaler, kmeans.cluster_centers_, df_imputed.rows, c)

\* the silhouette score the sweep recorded for k
ScoreOf(scores, k) == scores[CHOOSE i \in DOMAIN k_range : k_range[i] = k]

\* C20: the k that task4_cluster_determination.py reports as
\* "Optimal k (Silhouette)" is a k of k_range whose recorded silhouette
\* score is the largest of the recorded scores.
C20_ReportedKHasMaxSilhouette ==
    pc = "t4plot" =>
        /\ task4.optimal_k_silhouette \in Range(k_range)
        /\ \A j \in DOMAIN task4.silhouette_scores :
              task4.silhouette_scores[j] <=
                 ScoreOf(task4.silhouette_scores, task4.optimal_k_silhouette)

\* two matrices hold the same rows, each as often, in any order
SameRows(A, B) ==
    /\ Len(A) = Len(B)
    /\ \A r \in Range(A) \cup Range(B) :
          Cardinality({i \in DOMAIN A : A[i] = r}) = Cardinality({i \in DOMAIN B : B[i] = r})

\* C17: once task8_model_validation.py has split its data, its training
\* rows are exactly the rows of X_train_scaled.npy and its test rows are
\* exactly the rows of X_test_scaled.npy (the partition of Task 3).
C17_Task8SplitIsTask3Split ==
    pc = "t8fit" =>
        /\ SameRows(task8.X_train, disk.X_train_npy.data)
        /\ SameRows(task8.X_test, disk.X_test_npy.data)

\* C18: the confusion matrix and the accuracy that
\* task8_final_validation_plot.py saved to
\* visualizations/8_confusion_matrix.png are the ones
\* task8_model_validation.py computes from the classifier's predictions on
\* its test set.
C18_FinalPlotShowsValidationResult ==
    (/\ pc = "t8plot"
     /\ disk.confusion_matrix_png.exists
     /\ disk.confusion_matrix_png.by = "task8_final_validation_plot") =>
        /\ disk.confusion_matrix_png.cm = ConfusionMatrix(task8.y_test, task8.y_pred)
        /\ disk.confusion_matrix_png.accuracy = task8.accuracy

\* C21: once task4_cluster_determination.py has loaded the array and
\* every fit of the sweep has succeeded, it holds one inertia and one
\* silhouette score for each k of k_range, the silhouette plot gets x and y
\* of one length, the summary table gets columns of one length, and the
\* script ends with the SUCCESS banner and the saved figure.
C21_Task4ReachesSuccess ==
    [][pc = "t4plot" =>
          /\ Len(task4.inertia) = Len(k_range)
          /\ Len(task4.silhouette_scores) = Len(k_range)
          /\ Len(k_list_from_second) = Len(task4.silhouette_scores)
          /\ ~SummaryRaises(task4.silhouette_scores, task4.inertia)
          /\ exit_code' = "ok"
          /\ disk'.optimal_clusters_png.exists]_vars

\* the inertia the sweep recorded for k
InertiaOf(inertia, k) == inertia[CHOOSE i \in DOMAIN k_range : k_range[i] = k]

\* the k of k_range that have a neighbour on both sides
InteriorK == {k \in Range(k_range) : k - 1 \in Range(k_range) /\ k + 1 \in Range(k_range)}

\* inertia[k+1] - 2*inertia[k] + inertia[k-1]
SecondDifference(inertia, k) ==
    InertiaOf(inertia, k + 1) - 2 * InertiaOf(inertia, k) + InertiaOf(inertia, k - 1)

\* C22: the elbow k that task4_cluster_determination.py reports is a k of
\* k_range at which the second difference of the recorded inertia is the
\* largest.
C22_ElbowIsLargestSecondDifference ==
    pc = "t4plot" =>
        /\ task4.optimal_k_elbow \in InteriorK
        /\ \A k \in InteriorK :
              SecondDifference(task4.inertia, k) <=
                 SecondDifference(task4.inertia, task4.optimal_k_elbow)

\* C23: the size check of task5_clustering.py cuts all_labels and the
\* unscaled data to their first min(len(labels), len(data)) entries when
\* the sizes differ and leaves both as they are when the sizes are equal;
\* the labeled dataset then has that many rows, row i holding the features
\* of data row i and the one label i, and that table is what is saved.
C23_SizeMismatchCutsBothToMin ==
    [][/\ pc = "c_adjust" =>
            LET min_size == Min2(Len(all_labels), Len(X_unscaled))
            IN  /\ all_labels' = SubSeq(all_labels, 1, min_size)
                /\ X_unscaled' = SubSeq(X_unscaled, 1, min_size)
                /\ Len(all_labels) = Len(X_unscaled) =>
                      all_labels' = all_labels /\ X_unscaled' = X_unscaled
                /\ Len(df_imputed'.rows) = min_size
                /\ \A i \in 1..min_size :
                      /\ df_imputed'.rows[i].Subtype = all_labels[i]
                      /\ df_imputed'.rows[i].Subtype \in 0..(K_CLUSTERS - 1)
                      /\ Features(df_imputed'.rows[i]) = X_unscaled[i]
       /\ pc = "c_save" =>
            /\ disk'.labeled_root.rows = df_imputed.rows
            /\ disk'.labeled_out.rows = df_imputed.rows
            /\ Len(df_imputed.rows) = Len(all_labels)]_vars

\* task5_clustering.py has cut the labels: fewer rows are about to be saved
\* than the two arrays hold
C23_Witness ==
    /\ pc = "c_save"
    /\ Len(all_labels) >= 1
    /\ Len(all_labels) < Len(X_train_scaled) + Len(X_test_scaled)
    /\ Len(df_imputed.rows) = Len(all_labels)

\* what task5_clustering.py needs before it trains: the two arrays, the
\* imputed CSV, and in it HOMA_IR or both FI and FBS
Task5InputsPresent ==
    /\ disk.X_train_npy.exists
    /\ disk.X_test_npy.exists
    /\ disk.imputed_csv.exists
    /\ \/ "HOMA_IR" \in disk.imputed_csv.columns
       \/ {"FI", "FBS"} \subseteq disk.imputed_csv.columns

\* C24: when an input file of task5_clustering.py is missing, or the CSV
\* has no HOMA_IR and lacks FI or FBS, the script ends with status 1
\* without training a model and leaves every file, the labeled datasets
\* and the centers files included, as it was.
C24_MissingInputExitsBeforeTraining ==
    [][(pc = "idle" /\ ~Task5InputsPresent) =>
          /\ pc' = "idle"
          /\ exit_code' = "exit1"
          /\ ~kmeans'.fitted
          /\ fitHist' = fitHist
          /\ centersHist' = centersHist
          /\ disk' = disk]_vars

\* the script has ended with status 1 on a missing input while the labeled
\* datasets and the centers files of an earlier run are there
C24_Witness ==
    /\ exit_code = "exit1"
    /\ pc = "idle"
    /\ ~Task5InputsPresent
    /\ disk.labeled_out.exists
    /\ disk.labeled_root.exists
    /\ disk.centers_out.exists
    /\ disk.centers_root.exists
    /\ fitHist = {}

\* an archive has been started: the counters of create_final_archive.py exist
ArchiveStarted == "next" \in DOMAIN archive

\* C25: in create_final_archive.py every entry of FILES_TO_INCLUDE that the
\* loop has passed was added when it exists (a file itself, a folder with
\* the files under it) and skipped when it does not, a missing entry never
\* ends the script, and once the archive is closed added_count +
\* skipped_count is the number of entries of FILES_TO_INCLUDE.
C25_EveryEntryAddedOrSkipped ==
    /\ [](ArchiveStarted =>
            /\ Len(archive.outcome) = archive.next - 1
            /\ archive.added_count + archive.skipped_count = Len(archive.outcome)
            /\ archive.added_count =
                  Cardinality({j \in DOMAIN archive.outcome : archive.outcome[j] = "added"})
            /\ \A j \in DOMAIN archive.outcome :
                  LET file_path == FILES_TO_INCLUDE[j]
                  IN  IF PathExists(disk, runs, archive.sources, file_path)
                      THEN /\ archive.outcome[j] = "added"
                           /\ IF IsDir(file_path)
                              THEN Walk(disk, file_path) \subseteq Range(archive.members)
                              ELSE file_path \in Range(archive.members)
                      ELSE /\ archive.outcome[j] = "skipped"
                           /\ file_path \notin Range(archive.members)
            /\ ~archive.open =>
                  archive.added_count + archive.skipped_count = Len(FILES_TO_INCLUDE))
    /\ [][pc = "zip" =>
             /\ exit_code' # "raised"
             /\ pc' = "idle" => archive.next > Len(FILES_TO_INCLUDE)]_vars

\* a closed archive in which entries were skipped and files and a folder
\* were added
C25_Witness ==
    /\ ArchiveStarted
    /\ ~archive.open
    /\ exit_code = "ok"
    /\ archive.skipped_count >= 2
    /\ archive.added_count >= 2
    /\ archive.outcome[Len(FILES_TO_INCLUDE)] = "added"
    /\ archive.outcome[1] = "added"

\* the arrays of Task 3 on disk, training rows first
SavedArrays == disk.X_train_npy.data \o disk.X_test_npy.data

\* cluster_centers_ of the Task 5 model: KMeans fitted on the saved
\* training array
Task5Centers ==
    KMeansFit(disk.X_train_npy.data, K_CLUSTERS, RANDOM_STATE, MAX_ITER).cluster_centers_

\* the labeled CSV and the two arrays are on disk, with as many rows in the
\* CSV as in the two arrays together
EqualLength ==
    /\ disk.labeled_root.exists
    /\ disk.X_train_npy.exists
    /\ disk.X_test_npy.exists
    /\ Len(disk.labeled_root.rows) = Len(SavedArrays)

\* C26: in task7_umap_visualization.py and task8_model_validation.py, when
\* the labeled CSV and the arrays have equal length, the label paired with
\* feature row i of concat(X_train_scaled, X_test_scaled) is the cluster the
\* Task 5 model assigns to that feature row: for X and y as loaded by Task 8,
\* for the training and test pairs Task 8 splits them into, for X_scaled and
\* the Subtype column as loaded by Task 7, and for the points Task 7 saves.
C26_LabelIsTask5ClusterOfSameRow ==
    (EqualLength /\ (pc \in {"t8split", "t8fit", "t7umap"} \/ disk.umap_csv.exists)) =>
    \E centers \in {Task5Centers} :
    /\ pc \in {"t8split", "t8fit"} =>
          /\ task8.X = SavedArrays
          /\ Len(task8.y) = Len(task8.X)
          /\ \A i \in DOMAIN task8.X :
                task8.y[i] = Nearest(centers, task8.X[i])
    /\ pc = "t8fit" =>
          /\ \A i \in DOMAIN task8.X_train :
                task8.y_train[i] = Nearest(centers, task8.X_train[i])
          /\ \A i \in DOMAIN task8.X_test :
                task8.y_test[i] = Nearest(centers, task8.X_test[i])
    /\ pc = "t7umap" =>
          /\ X_scaled = SavedArrays
          /\ Len(task7.Subtype) = Len(X_scaled)
          /\ \A i \in DOMAIN X_scaled :
                task7.Subtype[i] = Nearest(centers, X_scaled[i])
    /\ disk.umap_csv.exists =>
          /\ Len(disk.umap_csv.rows) = Len(SavedArrays)
          /\ \A i \in DOMAIN disk.umap_csv.rows :
                /\ disk.umap_csv.rows[i].embeds = SavedArrays[i]
                /\ disk.umap_csv.rows[i].Subtype_ID =
                      Nearest(centers, disk.umap_csv.rows[i].embeds)

\* Task 8 has split its pairs and Task 7 has saved its points, of a run whose
\* labels are not all the same and not symmetric under reversal
C26_Witness ==
    /\ pc = "t8fit"
    /\ EqualLength
    /\ disk.umap_csv.exists
    /\ Len(task8.X) >= 10
    /\ Cardinality(Range(task8.y)) >= 3
    /\ task8.y # Reverse(task8.y)

\* the two copies of the labeled dataset file
LabeledFiles == {disk.labeled_root, disk.labeled_out}

\* C27: after any sequence of complete runs of 123.py and
\* task5_clustering.py, the labeled dataset file has the participant
\* identifier column (SEQN), the six feature columns and Subtype, and every
\* one of its rows has a value for each of them.
C27_LabeledRowsCarryParticipantId ==
    \A f \in LabeledFiles :
        f.exists =>
            /\ {"SEQN", "Subtype"} \cup Range(CLUSTER_FEATURES) \subseteq f.columns
            /\ \A i \in DOMAIN f.rows :
                  {"SEQN", "Subtype"} \cup Range(CLUSTER_FEATURES) \subseteq DOMAIN f.rows[i]

====
